---- MODULE Spec2Model ----
(***************************************************************************)
(* Dependency graph engine and priority-counter lock of server-features.   *)
(*                                                                         *)
(*   packages/api-core/src/database-utils.ts   resolve_dependencies,       *)
(*                                             _detect_cycles              *)
(*   apps/tasks-mcp-server/src/tools-utils.ts  lockPriority, unlockPriority*)
(*   apps/feature-explorer/src/index.ts        feature_create,             *)
(*                                             feature_create_bulk,        *)
(*                                             feature_skip                *)
(***************************************************************************)
EXTENDS Integers, Sequences, FiniteSets, TLC

(***************************************************************************)
(* Bounds of the model.                                                    *)
(***************************************************************************)
\* ids a snapshot may mention are 1..MaxId
MaxId == 3
\* a snapshot holds at most MaxFeatures features
MaxFeatures == 3
\* priorities of a snapshot are 1..MaxPriority
MaxPriority == 2
\* a snapshot holds at most MaxEdges dependency entries in all
MaxEdges == 3

\* processes that call the tools against the same store and lock file
NumProcs == 2
\* tool calls started in one behaviour
MaxCalls == 2
\* features of one feature_create_bulk call
MaxBulk == 2
\* entries of one depends_on_indices list
MaxIndices == 1
\* holders that die inside their critical section
MaxCrashes == 1
\* clock ticks per LOCK_TIMEOUT
TicksPerTimeout == 2
ChainSlack == 3
ListSlack == 1

(***************************************************************************)
(* Program constants.                                                      *)
(***************************************************************************)
LOCK_TIMEOUT == 5000
LOCK_POLL_INTERVAL == 50
MAX_DEPENDENCIES == 20
MAX_DEPENDENCY_DEPTH == 50

VARIABLES
    features,   \* the snapshot handed to the engine (Feature[])
    result,     \* the DependencyResult returned for it, or NoResult
    phase,      \* "input" before the engine ran, "resolved" after
    store,      \* rows of table features, row i has id i (AUTOINCREMENT)
    marker,     \* the file LOCK_FILE_PATH: NoMarker or [owner, age]
    pc,         \* per process: where it is in its tool call
    op,         \* per process: the tool call in progress and its arguments
    waited,     \* per process: Date.now() - startTime inside lockPriority
    sleep_left, \* per process: time left in sleepSync
    lockFd,     \* per process: lockFd !== null
    max_priority,      \* per process: the max_priority it read
    created_features,  \* per process: ids inserted by its bulk call
    ret,        \* per process: payload of the last call ("running" inside)
    wrote,      \* per process: rows written by the current or last call
    assigned,   \* log of the priorities assigned by INSERT and by skip
    calls,      \* tool calls started so far
    crashes     \* holders crashed so far

NoResult == [none |-> TRUE]

(***************************************************************************)
(* Map helpers: a JavaScript Map is a function whose DOMAIN is its keys.   *)
(***************************************************************************)
EmptyMap == [k \in {} |-> 0]

MapSet(m, k, v) == [x \in (DOMAIN m) \cup {k} |-> IF x = k THEN v ELSE m[x]]

\* m.get(k) || dflt
MapGet(m, k, dflt) == IF k \in DOMAIN m THEN m[k] ELSE dflt

Range(s) == {s[i] : i \in DOMAIN s}

SeqsUpTo(S, n) == UNION {[1..k -> S] : k \in 0..n}

\* new Map(features.map(f => [f.id, f])): a later entry overwrites an earlier
feature_map(fs) ==
    [k \in {fs[i].id : i \in DOMAIN fs} |->
        fs[CHOOSE i \in DOMAIN fs :
              /\ fs[i].id = k
              /\ \A j \in DOMAIN fs : fs[j].id = k => j <= i]]

(***************************************************************************)
(* resolve_dependencies, graph construction (database-utils.ts 180-206).   *)
(***************************************************************************)
InitGraph(fs) ==
    [in_degree |-> [k \in {fs[i].id : i \in DOMAIN fs} |-> 0],
     adjacency |-> [k \in {fs[i].id : i \in DOMAIN fs} |-> <<>>],
     blocked   |-> EmptyMap,
     missing   |-> EmptyMap]

\* an inner loop that also counts an absent dependency as an incoming edge
AddDependency_counts_missing(g, fmap, f, dep_id) ==
    IF dep_id \notin DOMAIN fmap
    THEN [g EXCEPT !.missing =
             MapSet(g.missing, f.id, Append(MapGet(g.missing, f.id, <<>>), dep_id)),
                   !.in_degree = MapSet(g.in_degree, f.id,
                                        MapGet(g.in_degree, f.id, 0) + 1)]
    ELSE LET g1 == [g EXCEPT
                     !.adjacency = MapSet(g.adjacency, dep_id,
                                      Append(MapGet(g.adjacency, dep_id, <<>>), f.id)),
                     !.in_degree = MapSet(g.in_degree, f.id,
                                      MapGet(g.in_degree, f.id, 0) + 1)]
         IN  IF ~fmap[dep_id].passes
             THEN [g1 EXCEPT !.blocked =
                      MapSet(g1.blocked, f.id,
                             Append(MapGet(g1.blocked, f.id, <<>>), dep_id))]
             ELSE g1

\* body of the inner loop: one dep_id of one feature
AddDependency(g, fmap, f, dep_id) ==
    IF dep_id \notin DOMAIN fmap
    THEN [g EXCEPT !.missing =
             MapSet(g.missing, f.id, Append(MapGet(g.missing, f.id, <<>>), dep_id))]
    ELSE LET g1 == [g EXCEPT
                     !.adjacency = MapSet(g.adjacency, dep_id,
                                      Append(MapGet(g.adjacency, dep_id, <<>>), f.id)),
                     !.in_degree = MapSet(g.in_degree, f.id,
                                      MapGet(g.in_degree, f.id, 0) + 1)]
         IN  IF ~fmap[dep_id].passes
             THEN [g1 EXCEPT !.blocked =
                      MapSet(g1.blocked, f.id,
                             Append(MapGet(g1.blocked, f.id, <<>>), dep_id))]
             ELSE g1

RECURSIVE AddDependencies(_, _, _, _)
AddDependencies(g, fmap, f, j) ==
    IF j > Len(f.dependencies) THEN g
    ELSE AddDependencies(AddDependency(g, fmap, f, f.dependencies[j]), fmap, f, j + 1)

RECURSIVE BuildGraphFrom(_, _, _, _)
BuildGraphFrom(g, fmap, fs, i) ==
    IF i > Len(fs) THEN g
    ELSE BuildGraphFrom(AddDependencies(g, fmap, fs[i], 1), fmap, fs, i + 1)

BuildGraph(fs) == BuildGraphFrom(InitGraph(fs), feature_map(fs), fs, 1)

(***************************************************************************)
(* The heap-js min-heap under the comparator of lines 210-213, kept as the *)
(* sequence of pushed features: pop removes one least element.             *)
(***************************************************************************)
\* a comparator with the priority difference taken the wrong way round
HeapCompare_reversed(a, b) ==
    IF a.priority # b.priority THEN b.priority - a.priority ELSE a.id - b.id

\* (a, b) => a.priority !== b.priority ? a.priority - b.priority : a.id - b.id
HeapCompare(a, b) ==
    IF a.priority # b.priority THEN a.priority - b.priority ELSE a.id - b.id

HeapPush(heap, f) == Append(heap, f)

\* a top that looks at the priority only
HeapTopIndex_by_priority(heap) ==
    CHOOSE i \in DOMAIN heap :
        \A j \in DOMAIN heap :
            \/ heap[i].priority < heap[j].priority
            \/ heap[i].priority = heap[j].priority /\ i <= j

\* heap.pop() / heap.peek(): the least element under the comparator; the
\* earliest pushed among elements that compare equal

HeapTopIndex(heap) ==
    CHOOSE i \in DOMAIN heap :
        \A j \in DOMAIN heap :
            \/ HeapCompare(heap[i], heap[j]) < 0
            \/ HeapCompare(heap[i], heap[j]) = 0 /\ i <= j

HeapTop(heap) == heap[HeapTopIndex(heap)]

HeapPop(heap) ==
    LET k == HeapTopIndex(heap)
    IN  [i \in 1..(Len(heap) - 1) |-> IF i < k THEN heap[i] ELSE heap[i + 1]]

\* a seeding that forgets the in-degree test
RECURSIVE SeedHeap_all(_, _, _, _)
SeedHeap_all(heap, in_degree, fs, i) ==
    IF i > Len(fs) THEN heap
    ELSE SeedHeap_all(HeapPush(heap, fs[i]), in_degree, fs, i + 1)

\* lines 215-219: seed the heap with every feature of in-degree 0
RECURSIVE SeedHeap(_, _, _, _)
SeedHeap(heap, in_degree, fs, i) ==
    IF i > Len(fs) THEN heap
    ELSE SeedHeap(IF MapGet(in_degree, fs[i].id, -1) = 0
                  THEN HeapPush(heap, fs[i]) ELSE heap,
                  in_degree, fs, i + 1)

\* lines 227-235: decrement every dependent of the popped feature
RECURSIVE ReleaseDependents(_, _, _, _)
ReleaseDependents(st, fmap, dependents, j) ==
    IF j > Len(dependents) THEN st
    ELSE LET dependent_id == dependents[j]
             new_degree   == MapGet(st.in_degree, dependent_id, 0) - 1
             deg          == MapSet(st.in_degree, dependent_id, new_degree)
         IN  ReleaseDependents(
                 [in_degree |-> deg,
                  heap      |-> IF new_degree = 0
                                THEN HeapPush(st.heap, fmap[dependent_id])
                                ELSE st.heap],
                 fmap, dependents, j + 1)

\* lines 223-236: the Kahn loop; returns the list `ordered`
RECURSIVE KahnLoop(_, _, _, _, _)
KahnLoop(heap, in_degree, ordered, adjacency, fmap) ==
    IF Len(heap) = 0 THEN ordered
    ELSE LET current == HeapTop(heap)
             st == ReleaseDependents(
                       [in_degree |-> in_degree, heap |-> HeapPop(heap)],
                       fmap, MapGet(adjacency, current.id, <<>>), 1)
         IN  KahnLoop(st.heap, st.in_degree, Append(ordered, current),
                      adjacency, fmap)

(***************************************************************************)
(* _detect_cycles (database-utils.ts 412-452).  The four collections are   *)
(* shared by all calls of dfs; a call that returns true leaves path and    *)
(* rec_stack as they are.                                                  *)
(***************************************************************************)
\* features.filter(pred) for a predicate given as the set of kept elements
FilterSeq(s, keep) ==
    LET pred(x) == x \in keep
    IN  SelectSeq(s, pred)

\* path.indexOf(x), 1-based; 0 when absent
IndexOf(path, x) ==
    IF x \in Range(path)
    THEN CHOOSE i \in DOMAIN path : path[i] = x /\ \A j \in 1..(i - 1) : path[j] # x
    ELSE 0

\* a slice that starts one element too late
SliceFrom_late(path, start) == SubSeq(path, start + 1, Len(path))

\* a slice that repeats its first id at the end
SliceFrom_closed(path, start) ==
    IF start = 0
    THEN IF Len(path) = 0 THEN <<>> ELSE <<path[Len(path)], path[Len(path)]>>
    ELSE Append(SubSeq(path, start, Len(path)), path[start])

\* path.slice(start) for the 1-based start; slice(-1) of JavaScript is the
\* last element
SliceFrom(path, start) ==
    IF start = 0
    THEN IF Len(path) = 0 THEN <<>> ELSE <<path[Len(path)]>>
    ELSE SubSeq(path, start, Len(path))

\* lines 442-444 and 427-436: a call returns.  false pops the call and lets
\* the caller's loop go on; true is passed up by every caller (428-430), and
\* path and rec_stack keep what the returning calls had pushed
dfs_return(st, value) ==
    IF value THEN [st EXCEPT !.calls = <<>>]
    ELSE LET callers == SubSeq(st.calls, 1, Len(st.calls) - 1)
         IN  [st EXCEPT !.calls = IF callers = <<>> THEN <<>>
                                  ELSE [callers EXCEPT ![Len(callers)].j = @ + 1]]

\* lines 426-444: the loop over deps of the innermost call, at its j-th
\* entry, and the end of the call
dfs_deps(st, c, fmap) ==
    LET deps == IF c.fid \in DOMAIN fmap THEN fmap[c.fid].dependencies ELSE <<>>
    IN  IF c.j > Len(deps)
        THEN dfs_return([st EXCEPT !.path = SubSeq(@, 1, Len(@) - 1),
                                   !.rec_stack = @ \ {c.fid}], FALSE)
        ELSE LET dep_id == deps[c.j]
             IN  IF dep_id \notin st.visited
                 THEN [st EXCEPT !.calls = Append(@, [fid |-> dep_id, j |-> 0]),
                                 !.deepest = IF Len(st.calls) + 1 > @
                                             THEN Len(st.calls) + 1 ELSE @]
                 ELSE IF dep_id \in st.rec_stack
                 THEN dfs_return(
                          [st EXCEPT !.cycles =
                              Append(@, SliceFrom(st.path, IndexOf(st.path, dep_id)))],
                          TRUE)
                 ELSE [st EXCEPT !.calls[Len(st.calls)].j = @ + 1]

\* lines 419-444: the innermost call goes on, from its entry (420-422) to its
\* loop or from one loop entry to the next
dfs(st, fmap) ==
    LET c == st.calls[Len(st.calls)]
    IN  IF c.j > 0 THEN dfs_deps(st, c, fmap)
        ELSE [st EXCEPT !.visited   = @ \cup {c.fid},
                        !.rec_stack = @ \cup {c.fid},
                        !.path      = Append(@, c.fid),
                        !.calls[Len(st.calls)].j = 1]

\* lines 446-450: for (const f of features), between two calls of dfs
DetectFrom(fs, st) ==
    IF st.i > Len(fs) THEN st
    ELSE IF fs[st.i].id \notin st.visited
    THEN [st EXCEPT !.i = @ + 1,
                    !.calls = <<[fid |-> fs[st.i].id, j |-> 0]>>,
                    !.deepest = IF @ < 1 THEN 1 ELSE @]
    ELSE [st EXCEPT !.i = @ + 1]

DetectDone(fs, st) == st.calls = <<>> /\ st.i > Len(fs)

\* n steps of _detect_cycles, or fewer when it has returned
RECURSIVE DetectRun(_, _, _, _)
DetectRun(fs, st, n, fmap) ==
    IF DetectDone(fs, st) \/ n = 0 THEN st
    ELSE IF n = 1
    THEN IF st.calls = <<>> THEN DetectFrom(fs, st) ELSE dfs(st, fmap)
    ELSE LET half == DetectRun(fs, st, n \div 2, fmap)
         IN  IF DetectDone(fs, half) THEN half
             ELSE DetectRun(fs, half, n - (n \div 2), fmap)

\* no run takes more steps: dfs is called once per id at most (visited), on
\* the features and on the ids of their lists; a call takes one step per
\* entry and two more, the outer loop one step per feature
DetectSteps(fs) ==
    LET longest == CHOOSE k \in {Len(fs[i].dependencies) : i \in DOMAIN fs} :
                      \A i \in DOMAIN fs : Len(fs[i].dependencies) <= k
    IN  IF fs = <<>> THEN 0
        ELSE Len(fs) * (longest + 1) * (longest + 2) + Len(fs)

\* lines 412-417 and the run; deepest is the largest number of calls of dfs
\* that were unfinished at the same time
DetectState(fs) ==
    DetectRun(fs,
              [cycles |-> <<>>, visited |-> {}, rec_stack |-> {}, path |-> <<>>,
               calls |-> <<>>, i |-> 1, deepest |-> 0],
              DetectSteps(fs), feature_map(fs))

detect_cycles(fs) == DetectState(fs).cycles

\* lines 221-241: the features that Kahn's loop has not ordered
Unsorted(fs) ==
    LET fmap    == feature_map(fs)
        g       == BuildGraph(fs)
        heap    == SeedHeap(<<>>, g.in_degree, fs, 1)
        ordered == KahnLoop(heap, g.in_degree, <<>>, g.adjacency, fmap)
    IN  FilterSeq(fs, Range(fs) \ Range(ordered))

\* resolve_dependencies without line 243 (the residue is not appended)
resolve_dependencies_no_tail(fs) ==
    LET fmap      == feature_map(fs)
        g         == BuildGraph(fs)
        heap      == SeedHeap(<<>>, g.in_degree, fs, 1)
        ordered   == KahnLoop(heap, g.in_degree, <<>>, g.adjacency, fmap)
        unsorted  == Len(ordered) < Len(fs)
        remaining == FilterSeq(fs, Range(fs) \ Range(ordered))
    IN  [ordered_features      |-> ordered,
         circular_dependencies |-> IF unsorted THEN detect_cycles(remaining) ELSE <<>>,
         blocked_features      |-> g.blocked,
         missing_dependencies  |-> g.missing]

(***************************************************************************)
(* resolve_dependencies (database-utils.ts 179-252).                       *)
(***************************************************************************)
resolve_dependencies(fs) ==
    LET fmap      == feature_map(fs)
        g         == BuildGraph(fs)
        heap      == SeedHeap(<<>>, g.in_degree, fs, 1)
        ordered   == KahnLoop(heap, g.in_degree, <<>>, g.adjacency, fmap)
        unsorted  == Len(ordered) < Len(fs)
        remaining == FilterSeq(fs, Range(fs) \ Range(ordered))
    IN  [ordered_features      |-> IF unsorted THEN ordered \o remaining ELSE ordered,
         circular_dependencies |-> IF unsorted THEN detect_cycles(remaining) ELSE <<>>,
         blocked_features      |-> g.blocked,
         missing_dependencies  |-> g.missing]

(***************************************************************************)
(* would_create_circular_dependency (database-utils.ts 307-360).  The      *)
(* recursion of can_reach is followed call by call: calls is the chain of  *)
(* the calls that have not returned, each with its current_id, its depth   *)
(* and the position j of its loop over deps (0 before the loop); visited   *)
(* is the shared set, ret the value returned by the outermost call and     *)
(* too_deep records whether the depth test of line 330 fired.              *)
(***************************************************************************)
\* line 359: can_reach(target_id), depth = 0
CanReachCall(target_id) ==
    [calls |-> <<[current_id |-> target_id, depth |-> 0, j |-> 0]>>,
     visited |-> {}, ret |-> FALSE, too_deep |-> FALSE]

\* a return: true is passed up by every caller (lines 351-353), false lets
\* the caller's loop go on with its next entry
can_reach_return(m, value, visited, too_deep) ==
    IF value
    THEN [calls |-> <<>>, visited |-> visited, ret |-> TRUE, too_deep |-> too_deep]
    ELSE LET callers == SubSeq(m.calls, 1, Len(m.calls) - 1)
         IN  [calls |-> IF callers = <<>> THEN <<>>
                        ELSE [callers EXCEPT ![Len(callers)].j = @ + 1],
              visited |-> visited, ret |-> FALSE, too_deep |-> FALSE]

\* lines 349-356: for (const dep_id of deps), at its j-th entry
can_reach_deps(m, c, fmap) ==
    LET deps == fmap[c.current_id].dependencies
    IN  IF c.j > Len(deps)
        THEN can_reach_return(m, FALSE, m.visited, FALSE)
        ELSE [m EXCEPT !.calls =
                  Append(@, [current_id |-> deps[c.j], depth |-> c.depth + 1,
                             j |-> 0])]

\* can_reach without lines 330-332
can_reach_no_limit(m, source_id, fmap) ==
    LET c == m.calls[Len(m.calls)]
    IN  IF c.j > 0 THEN can_reach_deps(m, c, fmap)
        ELSE IF c.current_id = source_id
        THEN can_reach_return(m, TRUE, m.visited, FALSE)
        ELSE IF c.current_id \in m.visited
        THEN can_reach_return(m, FALSE, m.visited, FALSE)
        ELSE IF c.current_id \notin DOMAIN fmap
        THEN can_reach_return(m, FALSE, m.visited \cup {c.current_id}, FALSE)
        ELSE [m EXCEPT !.visited = @ \cup {c.current_id},
                       !.calls[Len(m.calls)].j = 1]

\* lines 328-357: the innermost call goes on, from its entry to the loop or
\* from one loop entry to the next call
can_reach(m, source_id, fmap) ==
    LET c == m.calls[Len(m.calls)]
    IN  IF c.j > 0 THEN can_reach_deps(m, c, fmap)
        ELSE IF c.depth > MAX_DEPENDENCY_DEPTH
        THEN can_reach_return(m, TRUE, m.visited, TRUE)
        ELSE IF c.current_id = source_id
        THEN can_reach_return(m, TRUE, m.visited, FALSE)
        ELSE IF c.current_id \in m.visited
        THEN can_reach_return(m, FALSE, m.visited, FALSE)
        ELSE IF c.current_id \notin DOMAIN fmap
        THEN can_reach_return(m, FALSE, m.visited \cup {c.current_id}, FALSE)
        ELSE [m EXCEPT !.visited = @ \cup {c.current_id},
                       !.calls[Len(m.calls)].j = 1]

\* n steps of the search, or fewer when the outermost call has returned
RECURSIVE can_reach_run(_, _, _, _)
can_reach_run(m, n, source_id, fmap) ==
    IF m.calls = <<>> \/ n = 0 THEN m
    ELSE IF n = 1 THEN can_reach(m, source_id, fmap)
    ELSE LET half == can_reach_run(m, n \div 2, source_id, fmap)
         IN  IF half.calls = <<>> THEN half
             ELSE can_reach_run(half, n - (n \div 2), source_id, fmap)

\* no search takes more steps: a feature's loop is run once (visited), so
\* there are at most one call per dependency entry and one more, and the
\* call for a feature takes one step per entry and two more
CanReachSteps(fs) ==
    LET longest == CHOOSE k \in {Len(fs[i].dependencies) : i \in DOMAIN fs} :
                      \A i \in DOMAIN fs : Len(fs[i].dependencies) <= k
    IN  (Len(fs) * longest + 1) * (longest + 2)

\* the search started from the source instead of the target
would_create_circular_dependency_swapped(fs, source_id, target_id) ==
    LET fmap == feature_map(fs)
    IN  IF source_id = target_id
        THEN [value |-> TRUE, too_deep |-> FALSE]
        ELSE IF source_id \notin DOMAIN fmap \/ target_id \notin DOMAIN fmap
        THEN [value |-> FALSE, too_deep |-> FALSE]
        ELSE LET r == can_reach_run(CanReachCall(source_id), CanReachSteps(fs),
                                    target_id, fmap)
             IN  [value |-> r.ret, too_deep |-> r.too_deep]

would_create_circular_dependency(fs, source_id, target_id) ==
    LET fmap == feature_map(fs)
    IN  IF source_id = target_id
        THEN [value |-> TRUE, too_deep |-> FALSE]
        ELSE IF source_id \notin DOMAIN fmap \/ target_id \notin DOMAIN fmap
        THEN [value |-> FALSE, too_deep |-> FALSE]
        ELSE LET r == can_reach_run(CanReachCall(target_id), CanReachSteps(fs),
                                    source_id, fmap)
             IN  [value |-> r.ret, too_deep |-> r.too_deep]

(***************************************************************************)
(* validate_dependencies (database-utils.ts 373-400).  The result is the   *)
(* pair [is_valid, error_message]; the ids that line 391 joins into the    *)
(* message are kept next to its fixed part.                                *)
(***************************************************************************)
\* a limit test that already rejects MAX_DEPENDENCIES entries
validate_dependencies_off_by_one(feature_id, dependency_ids, all_feature_ids) ==
    LET missing == FilterSeq(dependency_ids, Range(dependency_ids) \ all_feature_ids)
    IN  IF Len(dependency_ids) >= MAX_DEPENDENCIES
        THEN [valid |-> FALSE, error |-> "Maximum 20 dependencies allowed",
              missing |-> <<>>]
        ELSE IF feature_id \in Range(dependency_ids)
        THEN [valid |-> FALSE, error |-> "A feature cannot depend on itself",
              missing |-> <<>>]
        ELSE IF Len(missing) > 0
        THEN [valid |-> FALSE, error |-> "Dependencies not found: ",
              missing |-> missing]
        ELSE IF Len(dependency_ids) # Cardinality(Range(dependency_ids))
        THEN [valid |-> FALSE, error |-> "Duplicate dependencies not allowed",
              missing |-> <<>>]
        ELSE [valid |-> TRUE, error |-> "", missing |-> <<>>]

validate_dependencies(feature_id, dependency_ids, all_feature_ids) ==
    LET missing == FilterSeq(dependency_ids, Range(dependency_ids) \ all_feature_ids)
    IN  IF Len(dependency_ids) > MAX_DEPENDENCIES
        THEN [valid |-> FALSE, error |-> "Maximum 20 dependencies allowed",
              missing |-> <<>>]
        ELSE IF feature_id \in Range(dependency_ids)
        THEN [valid |-> FALSE, error |-> "A feature cannot depend on itself",
              missing |-> <<>>]
        ELSE IF Len(missing) > 0
        THEN [valid |-> FALSE, error |-> "Dependencies not found: ",
              missing |-> missing]
        ELSE IF Len(dependency_ids) # Cardinality(Range(dependency_ids))
        THEN [valid |-> FALSE, error |-> "Duplicate dependencies not allowed",
              missing |-> <<>>]
        ELSE [valid |-> TRUE, error |-> "", missing |-> <<>>]

(***************************************************************************)
(* compute_scheduling_scores (database-utils.ts 463-536).                  *)
(***************************************************************************)
\* lines 469-470: children and parents, one empty list per feature
InitAdjacency(fs) ==
    [children |-> [k \in {fs[i].id : i \in DOMAIN fs} |-> <<>>],
     parents  |-> [k \in {fs[i].id : i \in DOMAIN fs} |-> <<>>]]

\* lines 475-478: one dep_id of feature f
AddEdge(adj, f, dep_id) ==
    IF dep_id \in DOMAIN adj.children
    THEN [children |-> [adj.children EXCEPT ![dep_id] = Append(@, f.id)],
          parents  |-> [adj.parents EXCEPT ![f.id] = Append(@, dep_id)]]
    ELSE adj

RECURSIVE AddEdges(_, _, _)
AddEdges(adj, f, j) ==
    IF j > Len(f.dependencies) THEN adj
    ELSE AddEdges(AddEdge(adj, f, f.dependencies[j]), f, j + 1)

\* lines 472-480
RECURSIVE BuildAdjacencyFrom(_, _, _)
BuildAdjacencyFrom(adj, fs, i) ==
    IF i > Len(fs) THEN adj
    ELSE BuildAdjacencyFrom(AddEdges(adj, fs[i], 1), fs, i + 1)

\* a Map whose key order matters: the keys in insertion order and the values
NoDepths == [keys |-> <<>>, val |-> EmptyMap]

DepthSet(depths, k, v) ==
    [keys |-> IF k \in DOMAIN depths.val THEN depths.keys ELSE Append(depths.keys, k),
     val  |-> MapSet(depths.val, k, v)]

\* line 484: the ids of the features without parents, in input order
RECURSIVE Roots(_, _, _)
Roots(fs, parents, i) ==
    IF i > Len(fs) THEN <<>>
    ELSE (IF Len(parents[fs[i].id]) = 0 THEN <<fs[i].id>> ELSE <<>>)
            \o Roots(fs, parents, i + 1)

\* lines 492-494: the queue entries of the children of a node
ChildEntries(children, node_id, depth) ==
    [k \in 1..Len(children[node_id]) |-> <<children[node_id][k], depth + 1>>]

\* lines 487-495.  An entry of depth d stands for a walk of d edges from a
\* root; a walk of n edges over n features repeats a feature, so from such an
\* entry on the loop goes round a cycle and the queue never empties: the
\* model stops there and reports that the loop does not end.
RECURSIVE BreadthFirst(_, _, _, _)
BreadthFirst(queue, depths, children, n) ==
    IF queue = <<>> THEN [terminates |-> TRUE, depths |-> depths]
    ELSE LET node_id == Head(queue)[1]
             depth   == Head(queue)[2]
         IN  IF depth >= n THEN [terminates |-> FALSE, depths |-> depths]
             ELSE BreadthFirst(
                    Tail(queue) \o ChildEntries(children, node_id, depth),
                    IF node_id \notin DOMAIN depths.val \/ depth > depths.val[node_id]
                    THEN DepthSet(depths, node_id, depth) ELSE depths,
                    children, n)

\* lines 498-502
RECURSIVE OrphanDepths(_, _, _)
OrphanDepths(depths, fs, i) ==
    IF i > Len(fs) THEN depths
    ELSE OrphanDepths(IF fs[i].id \notin DOMAIN depths.val
                      THEN DepthSet(depths, fs[i].id, 0) ELSE depths,
                      fs, i + 1)

\* line 506: Array.prototype.sort is stable; x goes behind the keys that are
\* not shallower than it
RECURSIVE InsertByDepth(_, _, _)
InsertByDepth(sorted, x, val) ==
    IF sorted = <<>> THEN <<x>>
    ELSE IF val[Head(sorted)] >= val[x]
         THEN <<Head(sorted)>> \o InsertByDepth(Tail(sorted), x, val)
         ELSE <<x>> \o sorted

RECURSIVE SortByDepthDesc(_, _, _)
SortByDepthDesc(keys, i, val) ==
    IF i = 0 THEN <<>>
    ELSE InsertByDepth(SortByDepthDesc(keys, i - 1, val), keys[i], val)

\* lines 509-511: the parents of one fid
RECURSIVE AddToParents(_, _, _, _)
AddToParents(downstream, parent_ids, j, fid) ==
    IF j > Len(parent_ids) THEN downstream
    ELSE AddToParents(
            [downstream EXCEPT ![parent_ids[j]] = @ + 1 + downstream[fid]],
            parent_ids, j + 1, fid)

\* lines 508-512
RECURSIVE Accumulate(_, _, _, _)
Accumulate(downstream, sorted_ids, i, parents) ==
    IF i > Len(sorted_ids) THEN downstream
    ELSE Accumulate(AddToParents(downstream, parents[sorted_ids[i]], 1, sorted_ids[i]),
                    sorted_ids, i + 1, parents)

\* Math.max(...values) of a non-empty map
MaxValue(mp) == CHOOSE v \in Range(mp) : \A w \in Range(mp) : w <= v

Min(a, b) == IF a < b THEN a ELSE b

\* lines 523-532.  The score is the fraction num / den with the positive
\* denominator den = max_downstream * max_depth (1 in place of a maximum
\* that is 0): 1000 * unblock + 100 * depth_score + 10 * priority_factor,
\* where 10 * priority_factor = 10 - min(priority, 10).
\* an unblocking score taken like the depth score: 1 - downstream / maximum
Score_unblock_inverted(f, depths, downstream, max_depth, max_downstream) ==
    LET md == IF max_depth > 0 THEN max_depth ELSE 1
        mw == IF max_downstream > 0 THEN max_downstream ELSE 1
        unblock_num == IF max_downstream > 0
                       THEN max_downstream - downstream[f.id] ELSE 0
        depth_num   == IF max_depth > 0 THEN max_depth - depths[f.id] ELSE 1
    IN  [num |-> 1000 * unblock_num * md + 100 * depth_num * mw
                   + (10 - Min(f.priority, 10)) * mw * md,
         den |-> mw * md]

Score(f, depths, downstream, max_depth, max_downstream) ==
    LET md == IF max_depth > 0 THEN max_depth ELSE 1
        mw == IF max_downstream > 0 THEN max_downstream ELSE 1
        unblock_num == IF max_downstream > 0 THEN downstream[f.id] ELSE 0
        depth_num   == IF max_depth > 0 THEN max_depth - depths[f.id] ELSE 1
    IN  [num |-> 1000 * unblock_num * md + 100 * depth_num * mw
                   + (10 - Min(f.priority, 10)) * mw * md,
         den |-> mw * md]

compute_scheduling_scores(fs) ==
    IF Len(fs) = 0
    THEN [terminates |-> TRUE, scores |-> EmptyMap, depths |-> EmptyMap,
          downstream |-> EmptyMap]
    ELSE LET adj == BuildAdjacencyFrom(InitAdjacency(fs), fs, 1)
             roots == Roots(fs, adj.parents, 1)
             bfs == BreadthFirst([k \in 1..Len(roots) |-> <<roots[k], 0>>],
                                 NoDepths, adj.children, Len(fs))
         IN  IF ~bfs.terminates
             THEN [terminates |-> FALSE, scores |-> EmptyMap, depths |-> EmptyMap,
                   downstream |-> EmptyMap]
             ELSE LET depths == OrphanDepths(bfs.depths, fs, 1)
                      sorted_ids == SortByDepthDesc(depths.keys, Len(depths.keys),
                                                    depths.val)
                      downstream ==
                          Accumulate([k \in DOMAIN adj.children |-> 0],
                                     sorted_ids, 1, adj.parents)
                      max_depth == MaxValue(depths.val)
                      max_downstream == MaxValue(downstream)
                  IN  [terminates |-> TRUE,
                       scores |-> [k \in DOMAIN adj.children |->
                                     Score(feature_map(fs)[k], depths.val,
                                           downstream, max_depth, max_downstream)],
                       depths |-> depths.val,
                       downstream |-> downstream]

(***************************************************************************)
(* build_adjacency_list and compute_depth (dependency_resolver-utils.ts    *)
(* 15-24 and 34-54).  compute_depth returns its value and the memo it has  *)
(* filled; pending holds the ids whose calls have not returned: a call for *)
(* one of them finds no memo entry (line 51 comes after the recursion) and *)
(* recurses without end, which is reported as overflow.                    *)
(***************************************************************************)
build_adjacency_list(fs) ==
    [k \in {fs[i].id : i \in DOMAIN fs} |-> feature_map(fs)[k].dependencies]

RECURSIVE compute_depth(_, _, _, _)
RECURSIVE compute_depth_deps(_, _, _, _, _, _)
compute_depth(feature_id, graph, memo, pending) ==
    IF feature_id \in DOMAIN memo
    THEN [value |-> memo[feature_id], memo |-> memo, overflow |-> FALSE]
    ELSE IF feature_id \in pending
    THEN [value |-> 0, memo |-> memo, overflow |-> TRUE]
    ELSE LET deps == MapGet(graph, feature_id, <<>>)
         IN  IF Len(deps) = 0
             THEN [value |-> 0, memo |-> MapSet(memo, feature_id, 0),
                   overflow |-> FALSE]
             ELSE LET r == compute_depth_deps(deps, 1, graph, memo,
                                              pending \cup {feature_id}, 0)
                  IN  IF r.overflow THEN r
                      ELSE [value |-> 1 + r.value,
                            memo |-> MapSet(r.memo, feature_id, 1 + r.value),
                            overflow |-> FALSE]

\* line 49: Math.max over deps.map(compute_depth), from the j-th entry on;
\* best is the largest depth so far (depths are not negative)
compute_depth_deps(deps, j, graph, memo, pending, best) ==
    IF j > Len(deps)
    THEN [value |-> best, memo |-> memo, overflow |-> FALSE]
    ELSE LET r == compute_depth(deps[j], graph, memo, pending)
         IN  IF r.overflow THEN r
             ELSE compute_depth_deps(deps, j + 1, graph, r.memo, pending,
                                     IF r.value > best THEN r.value ELSE best)

(***************************************************************************)
(* get_ready_features (database-utils.ts 549-576) and get_blocked_features *)
(* (588-606).                                                              *)
(***************************************************************************)
\* lines 550 and 591
PassingIds(fs) == {fs[i].id : i \in {j \in DOMAIN fs : fs[j].passes}}

\* lines 554-560
IsReady(f, fs) ==
    /\ ~(f.passes \/ f.in_progress)
    /\ \A j \in DOMAIN f.dependencies : f.dependencies[j] \in PassingIds(fs)

RECURSIVE ReadyList(_, _)
ReadyList(fs, i) ==
    IF i > Len(fs) THEN <<>>
    ELSE (IF IsReady(fs[i], fs) THEN <<fs[i]>> ELSE <<>>) \o ReadyList(fs, i + 1)

\* lines 565-573: the sign of the comparator; scores of one snapshot have
\* the same denominator
ReadyCompare(a, b, scores) ==
    LET score_diff == scores[b.id].num - scores[a.id].num
    IN  IF score_diff # 0 THEN score_diff
        ELSE IF a.priority - b.priority # 0 THEN a.priority - b.priority
        ELSE a.id - b.id

RECURSIVE InsertReady(_, _, _)
InsertReady(sorted, x, scores) ==
    IF sorted = <<>> THEN <<x>>
    ELSE IF ReadyCompare(Head(sorted), x, scores) <= 0
         THEN <<Head(sorted)>> \o InsertReady(Tail(sorted), x, scores)
         ELSE <<x>> \o sorted

RECURSIVE SortReady(_, _, _)
SortReady(ready, i, scores) ==
    IF i = 0 THEN <<>>
    ELSE InsertReady(SortReady(ready, i - 1, scores), ready[i], scores)

get_ready_features(fs, limit) ==
    LET ready == ReadyList(fs, 1)
        sc == compute_scheduling_scores(fs)
    IN  IF ~sc.terminates THEN [terminates |-> FALSE, value |-> <<>>]
        ELSE [terminates |-> TRUE,
              value |-> SubSeq(SortReady(ready, Len(ready), sc.scores), 1,
                               Min(limit, Len(ready)))]

\* a filter that keeps only the blocking ids present in the snapshot
Blocking_present_only(f, fs) ==
    FilterSeq(f.dependencies,
              {fs[i].id : i \in DOMAIN fs} \ PassingIds(fs))

\* line 599
Blocking(f, fs) ==
    FilterSeq(f.dependencies, Range(f.dependencies) \ PassingIds(fs))

RECURSIVE BlockedList(_, _)
BlockedList(fs, i) ==
    IF i > Len(fs) THEN <<>>
    ELSE (IF ~fs[i].passes /\ Len(Blocking(fs[i], fs)) > 0
          THEN <<[feature |-> fs[i], blocked_by |-> Blocking(fs[i], fs)]>>
          ELSE <<>>) \o BlockedList(fs, i + 1)

get_blocked_features(fs) == BlockedList(fs, 1)


(***************************************************************************)
(* build_graph_data (database-utils.ts 619-665).                           *)
(***************************************************************************)
\* a status that looks only at the dependency ids present in the snapshot
NodeStatus_present_only(f, fs) ==
    IF f.passes THEN "done"
    ELSE IF Len(Blocking_present_only(f, fs)) > 0 THEN "blocked"
    ELSE IF f.in_progress THEN "in_progress"
    ELSE "pending"

\* lines 637-649
NodeStatus(f, fs) ==
    IF f.passes THEN "done"
    ELSE IF Len(FilterSeq(f.dependencies, Range(f.dependencies) \ PassingIds(fs))) > 0
    THEN "blocked"
    ELSE IF f.in_progress THEN "in_progress"
    ELSE "pending"

\* lines 651-658
GraphNodes(fs) ==
    [i \in DOMAIN fs |->
        [id |-> fs[i].id, status |-> NodeStatus(fs[i], fs),
         priority |-> fs[i].priority, dependencies |-> fs[i].dependencies]]

\* lines 660-662: the edges of features i, i + 1, ... in order
RECURSIVE GraphEdges(_, _)
GraphEdges(fs, i) ==
    IF i > Len(fs) THEN <<>>
    ELSE [k \in DOMAIN fs[i].dependencies |->
             [source |-> fs[i].dependencies[k], target |-> fs[i].id]]
         \o GraphEdges(fs, i + 1)

build_graph_data(fs) == [nodes |-> GraphNodes(fs), edges |-> GraphEdges(fs, 1)]

(***************************************************************************)
(* The store (table features) and the lock file.                           *)
(***************************************************************************)
Procs == 1..NumProcs

NoMarker == [none |-> TRUE]

NoOp == [kind |-> "none"]

\* SELECT MAX(priority) as max_priority FROM features; (... ?? 0)
MaxPriorityOf(rows) ==
    IF Len(rows) = 0 THEN 0
    ELSE CHOOSE m \in {rows[i].priority : i \in DOMAIN rows} :
            \A i \in DOMAIN rows : rows[i].priority <= m

\* INSERT INTO features (priority, ..., passes, in_progress, dependencies)
\*   VALUES (priority, ..., 0, 0, null)
NewRow(priority) ==
    [priority |-> priority, passes |-> FALSE, in_progress |-> FALSE,
     dependencies |-> <<>>]

\* Date.now() advances by Quantum at each tick of the clock
Quantum == LOCK_TIMEOUT \div TicksPerTimeout

\* statements of lockPriority between two sleeps run without delay
Urgent == {"open", "stat", "unlink", "lock_failed"}

InLockPriority == {"open", "sleep", "stat", "unlink"}

\* between the return of lockPriority and the end of unlockPriority
InCriticalSection == {"select_max", "write", "set_deps", "unlock"}

(***************************************************************************)
(* feature_create_bulk: the validation pass (index.ts 926-971).            *)
(***************************************************************************)
\* an entry of depends_on_indices, a JavaScript number: the integer n, or
\* n + 1/2 when half is set
Whole(n) == [n |-> n, half |-> FALSE]

\* Number.isInteger(idx)
IsInteger(idx) == ~idx.half

IndexLists == SeqsUpTo({Whole(n) : n \in (-1)..(MaxBulk - 1)}, MaxIndices)

\* a feature of the batch: without its required fields, or with them and
\* with a depends_on_indices list
BulkFeatures ==
    {[fields |-> FALSE, depends_on_indices |-> <<>>]}
        \cup [fields : {TRUE}, depends_on_indices : IndexLists]

BulkInputs == UNION {[1..k -> BulkFeatures] : k \in 1..MaxBulk}

HasDuplicates(s) == Cardinality(Range(s)) # Len(s)

\* a first pass without Number.isInteger
BulkFeatureValid_any_number(fd, i) ==
    /\ fd.fields
    /\ Len(fd.depends_on_indices) > 0 =>
          /\ Len(fd.depends_on_indices) <= MAX_DEPENDENCIES
          /\ ~HasDuplicates(fd.depends_on_indices)
          /\ \A k \in DOMAIN fd.depends_on_indices :
                /\ fd.depends_on_indices[k].n >= 0
                /\ fd.depends_on_indices[k].n < i

\* one feature of the batch passes the first pass; i is its 0-based index.
\* For n + 1/2 as for n, idx < 0 is n < 0 and idx >= i is n >= i.
BulkFeatureValid(fd, i) ==
    /\ fd.fields
    /\ Len(fd.depends_on_indices) > 0 =>
          /\ Len(fd.depends_on_indices) <= MAX_DEPENDENCIES
          /\ ~HasDuplicates(fd.depends_on_indices)
          /\ \A k \in DOMAIN fd.depends_on_indices :
                /\ IsInteger(fd.depends_on_indices[k])
                /\ fd.depends_on_indices[k].n >= 0
                /\ fd.depends_on_indices[k].n < i

BulkValid(input) == \A i \in DOMAIN input : BulkFeatureValid(input[i], i - 1)

\* [...].sort((a, b) => a - b)
RECURSIVE SortAsc(_)
SortAsc(s) ==
    IF s = <<>> THEN <<>>
    ELSE LET m == CHOOSE i \in DOMAIN s : \A j \in DOMAIN s : s[i] <= s[j]
         IN  <<s[m]>> \o SortAsc([k \in 1..(Len(s) - 1) |->
                                     IF k < m THEN s[k] ELSE s[k + 1]])

(***************************************************************************)
(* Tool calls up to lockPriority().                                        *)
(***************************************************************************)
\* a process that is not inside a call starts one
CanCall(p) == pc[p] = "idle" /\ calls < MaxCalls

\* the call goes on to lockPriority(): const startTime = Date.now()
EnterLockPriority(p, o) ==
    /\ calls' = calls + 1
    /\ op' = [op EXCEPT ![p] = o]
    /\ wrote' = [wrote EXCEPT ![p] = 0]
    /\ pc' = [pc EXCEPT ![p] = "open"]
    /\ ret' = [ret EXCEPT ![p] = "running"]
    /\ waited' = [waited EXCEPT ![p] = 0]

\* the call returns an error payload before lockPriority()
ReturnEarly(p, payload) ==
    /\ calls' = calls + 1
    /\ wrote' = [wrote EXCEPT ![p] = 0]
    /\ pc' = [pc EXCEPT ![p] = "idle"]
    /\ ret' = [ret EXCEPT ![p] = payload]
    /\ UNCHANGED <<op, waited>>

\* feature_create, lines 1045-1054
feature_create(p) ==
    /\ CanCall(p)
    /\ EnterLockPriority(p, [kind |-> "create"])
    /\ UNCHANGED <<features, result, phase, store, marker, sleep_left, lockFd,
                   max_priority, created_features, assigned, crashes>>

\* feature_skip, lines 693-710
feature_skip(p, feature_id) ==
    /\ CanCall(p)
    /\ IF feature_id \notin DOMAIN store
       THEN ReturnEarly(p, "error: not found")
       ELSE IF store[feature_id].passes
            THEN ReturnEarly(p, "error: passing")
            ELSE EnterLockPriority(p, [kind |-> "skip", feature_id |-> feature_id])
    /\ UNCHANGED <<features, result, phase, store, marker, sleep_left, lockFd,
                   max_priority, created_features, assigned, crashes>>

\* feature_create_bulk, lines 915-974
feature_create_bulk(p, input) ==
    /\ CanCall(p)
    /\ IF BulkValid(input)
       THEN EnterLockPriority(p, [kind |-> "bulk", input |-> input])
       ELSE ReturnEarly(p, "error: input")
    /\ UNCHANGED <<features, result, phase, store, marker, sleep_left, lockFd,
                   max_priority, created_features, assigned, crashes>>

(***************************************************************************)
(* lockPriority (tools-utils.ts 39-73), one action per file-system call.   *)
(***************************************************************************)
\* lines 64 and 69: lockPriority throws
LockFailed(p) == pc' = [pc EXCEPT ![p] = "lock_failed"]

\* a loop without lines 50-65: on EEXIST it always sleeps and retries
lockPriority_open_no_timeout(p) ==
    /\ pc[p] = "open"
    /\ IF marker = NoMarker
       THEN /\ marker' = [owner |-> p, age |-> 0]
            /\ lockFd' = [lockFd EXCEPT ![p] = TRUE]
            /\ pc' = [pc EXCEPT ![p] = "select_max"]
            /\ UNCHANGED sleep_left
       ELSE /\ pc' = [pc EXCEPT ![p] = "sleep"]
            /\ sleep_left' = [sleep_left EXCEPT ![p] = LOCK_POLL_INTERVAL]
            /\ UNCHANGED <<marker, lockFd>>
    /\ UNCHANGED <<features, result, phase, store, op, waited, max_priority,
                   created_features, ret, wrote, assigned, calls, crashes>>

\* line 45, fs.openSync(LOCK_FILE_PATH, 'wx'), and lines 49-67 on EEXIST
lockPriority_open(p) ==
    /\ pc[p] = "open"
    /\ IF marker = NoMarker
       THEN /\ marker' = [owner |-> p, age |-> 0]
            /\ lockFd' = [lockFd EXCEPT ![p] = TRUE]
            /\ pc' = [pc EXCEPT ![p] = "select_max"]
            /\ UNCHANGED sleep_left
       ELSE /\ IF waited[p] >= LOCK_TIMEOUT
               THEN /\ pc' = [pc EXCEPT ![p] = "stat"]
                    /\ UNCHANGED sleep_left
               ELSE /\ pc' = [pc EXCEPT ![p] = "sleep"]
                    /\ sleep_left' = [sleep_left EXCEPT ![p] = LOCK_POLL_INTERVAL]
            /\ UNCHANGED <<marker, lockFd>>
    /\ UNCHANGED <<features, result, phase, store, op, waited, max_priority,
                   created_features, ret, wrote, assigned, calls, crashes>>

\* lines 68-70: openSync fails with a code other than EEXIST
lockPriority_open_error(p) ==
    /\ pc[p] = "open"
    /\ LockFailed(p)
    /\ UNCHANGED <<features, result, phase, store, marker, op, waited,
                   sleep_left, lockFd, max_priority, created_features, ret,
                   wrote, assigned, calls, crashes>>

\* line 67 and lines 99-104: sleepSync returns once the interval has passed
sleepSync(p) ==
    /\ pc[p] = "sleep"
    /\ sleep_left[p] = 0
    /\ pc' = [pc EXCEPT ![p] = "open"]
    /\ UNCHANGED <<features, result, phase, store, marker, op, waited,
                   sleep_left, lockFd, max_priority, created_features, ret,
                   wrote, assigned, calls, crashes>>

\* an age test that never finds the marker stale
lockPriority_stat_never_stale(p) ==
    /\ pc[p] = "stat"
    /\ LockFailed(p)
    /\ UNCHANGED <<features, result, phase, store, marker, op, waited,
                   sleep_left, lockFd, max_priority, created_features, ret,
                   wrote, assigned, calls, crashes>>

\* lines 53-56 and 61-64: statSync and the age test
lockPriority_stat(p) ==
    /\ pc[p] = "stat"
    /\ IF marker # NoMarker /\ marker.age > LOCK_TIMEOUT
       THEN pc' = [pc EXCEPT ![p] = "unlink"]
       ELSE LockFailed(p)
    /\ UNCHANGED <<features, result, phase, store, marker, op, waited,
                   sleep_left, lockFd, max_priority, created_features, ret,
                   wrote, assigned, calls, crashes>>

\* lines 58-59 and 61-64: unlinkSync of the stale marker, then continue
lockPriority_unlink(p) ==
    /\ pc[p] = "unlink"
    /\ IF marker # NoMarker
       THEN /\ marker' = NoMarker
            /\ pc' = [pc EXCEPT ![p] = "open"]
       ELSE /\ LockFailed(p)
            /\ UNCHANGED marker
    /\ UNCHANGED <<features, result, phase, store, op, waited, sleep_left,
                   lockFd, max_priority, created_features, ret, wrote,
                   assigned, calls, crashes>>

\* a tool that goes on to the guarded sequence although lockPriority threw
catch_lock_error_proceeds(p) ==
    /\ pc[p] = "lock_failed"
    /\ pc' = [pc EXCEPT ![p] = "select_max"]
    /\ UNCHANGED <<features, result, phase, store, marker, op, waited,
                   sleep_left, lockFd, max_priority, created_features, ret,
                   wrote, assigned, calls, crashes>>

\* the exception of lockPriority reaches the catch of the tool (index.ts
\* 732-733, 1023-1024, 1090-1091): the inner try with its finally was not
\* entered, unlockPriority is not called, the error payload is returned
catch_lock_error(p) ==
    /\ pc[p] = "lock_failed"
    /\ pc' = [pc EXCEPT ![p] = "idle"]
    /\ ret' = [ret EXCEPT ![p] = "error: lock"]
    /\ op' = [op EXCEPT ![p] = NoOp]
    /\ waited' = [waited EXCEPT ![p] = 0]
    /\ UNCHANGED <<features, result, phase, store, marker, sleep_left, lockFd,
                   max_priority, created_features, wrote, assigned, calls,
                   crashes>>

(***************************************************************************)
(* The guarded sequence of the three tools, one action per statement.      *)
(***************************************************************************)
\* SELECT MAX(priority): index.ts 712-713, 977-978, 1056-1057
select_max(p) ==
    /\ pc[p] = "select_max"
    /\ max_priority' = [max_priority EXCEPT ![p] = MaxPriorityOf(store)]
    /\ pc' = [pc EXCEPT ![p] = "write"]
    /\ UNCHANGED <<features, result, phase, store, marker, op, waited,
                   sleep_left, lockFd, created_features, ret, wrote, assigned,
                   calls, crashes>>

\* the statements after the last write do not change the store
AfterWrites(p) ==
    /\ pc' = [pc EXCEPT ![p] = "unlock"]
    /\ ret' = [ret EXCEPT ![p] = "success"]

\* feature_create: INSERT with next_priority, lines 1057-1086
insert_feature(p) ==
    /\ pc[p] = "write"
    /\ op[p].kind = "create"
    /\ store' = Append(store, NewRow(max_priority[p] + 1))
    /\ assigned' = Append(assigned, max_priority[p] + 1)
    /\ wrote' = [wrote EXCEPT ![p] = @ + 1]
    /\ AfterWrites(p)
    /\ UNCHANGED <<features, result, phase, marker, op, waited, sleep_left,
                   lockFd, max_priority, created_features, calls, crashes>>


\* an UPDATE of the priority alone
update_priority_keeps_flag(p) ==
    /\ pc[p] = "write"
    /\ op[p].kind = "skip"
    /\ store' = [store EXCEPT ![op[p].feature_id] =
                    [@ EXCEPT !.priority = max_priority[p] + 1]]
    /\ assigned' = Append(assigned, max_priority[p] + 1)
    /\ wrote' = [wrote EXCEPT ![p] = @ + 1]
    /\ AfterWrites(p)
    /\ UNCHANGED <<features, result, phase, marker, op, waited, sleep_left,
                   lockFd, max_priority, created_features, calls, crashes>>

\* feature_skip: UPDATE priority and in_progress, lines 713-728
update_priority(p) ==
    /\ pc[p] = "write"
    /\ op[p].kind = "skip"
    /\ store' = [store EXCEPT ![op[p].feature_id] =
                    [@ EXCEPT !.priority = max_priority[p] + 1,
                              !.in_progress = FALSE]]
    /\ assigned' = Append(assigned, max_priority[p] + 1)
    /\ wrote' = [wrote EXCEPT ![p] = @ + 1]
    /\ AfterWrites(p)
    /\ UNCHANGED <<features, result, phase, marker, op, waited, sleep_left,
                   lockFd, max_priority, created_features, calls, crashes>>

\* a second pass that gives every feature of the batch start_priority
insert_bulk_feature_same(p) ==
    /\ pc[p] = "write"
    /\ op[p].kind = "bulk"
    /\ LET i == Len(created_features[p])
       IN  /\ store' = Append(store, NewRow(max_priority[p] + 1))
           /\ assigned' = Append(assigned, max_priority[p] + 1)
           /\ created_features' =
                 [created_features EXCEPT ![p] = Append(@, Len(store) + 1)]
           /\ pc' = [pc EXCEPT ![p] =
                        IF i + 1 < Len(op[p].input) THEN "write" ELSE "set_deps"]
    /\ wrote' = [wrote EXCEPT ![p] = @ + 1]
    /\ UNCHANGED <<features, result, phase, marker, op, waited, sleep_left,
                   lockFd, max_priority, ret, calls, crashes>>

\* feature_create_bulk, second pass: one INSERT of the loop, lines 982-1000
insert_bulk_feature(p) ==
    /\ pc[p] = "write"
    /\ op[p].kind = "bulk"
    /\ LET i == Len(created_features[p])     \* 0-based index of this feature
       IN  /\ store' = Append(store, NewRow(max_priority[p] + 1 + i))
           /\ assigned' = Append(assigned, max_priority[p] + 1 + i)
           /\ created_features' =
                 [created_features EXCEPT ![p] = Append(@, Len(store) + 1)]
           /\ pc' = [pc EXCEPT ![p] =
                        IF i + 1 < Len(op[p].input) THEN "write" ELSE "set_deps"]
    /\ wrote' = [wrote EXCEPT ![p] = @ + 1]
    /\ UNCHANGED <<features, result, phase, marker, op, waited, sleep_left,
                   lockFd, max_priority, ret, calls, crashes>>

\* the dependency UPDATEs of the third pass, applied to the rows in order
RECURSIVE SetBulkDependencies(_, _, _, _)
SetBulkDependencies(rows, input, created, i) ==
    IF i > Len(input) THEN rows
    ELSE LET indices == input[i].depends_on_indices
             dep_ids == SortAsc([k \in DOMAIN indices |-> created[indices[k].n + 1]])
         IN  SetBulkDependencies(
                 IF Len(indices) > 0 /\ created[i] \in DOMAIN rows
                 THEN [rows EXCEPT ![created[i]].dependencies = dep_ids]
                 ELSE rows,
                 input, created, i + 1)

\* feature_create_bulk, third pass and return, lines 1003-1019
set_bulk_dependencies(p) ==
    /\ pc[p] = "set_deps"
    /\ store' = SetBulkDependencies(store, op[p].input, created_features[p], 1)
    /\ AfterWrites(p)
    /\ UNCHANGED <<features, result, phase, marker, op, waited, sleep_left,
                   lockFd, max_priority, created_features, wrote, assigned,
                   calls, crashes>>

\* a statement on the store throws and the tool returns without a finally
store_throws_no_finally(p) ==
    /\ pc[p] \in {"select_max", "write", "set_deps"}
    /\ pc' = [pc EXCEPT ![p] = "idle"]
    /\ ret' = [ret EXCEPT ![p] = "error: store"]
    /\ op' = [op EXCEPT ![p] = NoOp]
    /\ waited' = [waited EXCEPT ![p] = 0]
    /\ max_priority' = [max_priority EXCEPT ![p] = 0]
    /\ created_features' = [created_features EXCEPT ![p] = <<>>]
    /\ UNCHANGED <<features, result, phase, store, marker, sleep_left, lockFd,
                   wrote, assigned, calls, crashes>>

\* a statement on the store throws inside the inner try: the finally runs
store_throws(p) ==
    /\ pc[p] \in {"select_max", "write", "set_deps"}
    /\ pc' = [pc EXCEPT ![p] = "unlock"]
    /\ ret' = [ret EXCEPT ![p] = "error: store"]
    /\ UNCHANGED <<features, result, phase, store, marker, op, waited,
                   sleep_left, lockFd, max_priority, created_features, wrote,
                   assigned, calls, crashes>>

\* unlockPriority (tools-utils.ts 78-94) in the finally, then the return
unlockPriority(p) ==
    /\ pc[p] = "unlock"
    /\ lockFd' = [lockFd EXCEPT ![p] = FALSE]
    /\ marker' = NoMarker
    /\ pc' = [pc EXCEPT ![p] = "idle"]
    /\ op' = [op EXCEPT ![p] = NoOp]
    /\ waited' = [waited EXCEPT ![p] = 0]
    /\ max_priority' = [max_priority EXCEPT ![p] = 0]
    /\ created_features' = [created_features EXCEPT ![p] = <<>>]
    /\ UNCHANGED <<features, result, phase, store, sleep_left, ret, wrote,
                   assigned, calls, crashes>>

\* the process dies between lockPriority and unlockPriority; the operating
\* system closes its descriptor, the marker file stays
crash(p) ==
    /\ pc[p] \in {"select_max", "write", "set_deps", "unlock"}
    /\ crashes < MaxCrashes
    /\ crashes' = crashes + 1
    /\ pc' = [pc EXCEPT ![p] = "crashed"]
    /\ lockFd' = [lockFd EXCEPT ![p] = FALSE]
    /\ op' = [op EXCEPT ![p] = NoOp]
    /\ waited' = [waited EXCEPT ![p] = 0]
    /\ max_priority' = [max_priority EXCEPT ![p] = 0]
    /\ created_features' = [created_features EXCEPT ![p] = <<>>]
    /\ UNCHANGED <<features, result, phase, store, marker, sleep_left, ret,
                   wrote, assigned, calls>>

\* a new server process is started in place of the crashed one: lockFd is
\* null (tools-utils.ts 31), the marker file of the dead process stays where
\* it is and its creator (owner 0) no longer exists.  The call that the crash
\* cut short no longer counts against MaxCalls.
respawn(p) ==
    /\ pc[p] = "crashed"
    /\ pc' = [pc EXCEPT ![p] = "idle"]
    /\ marker' = IF marker # NoMarker /\ marker.owner = p
                 THEN [marker EXCEPT !.owner = 0] ELSE marker
    /\ calls' = calls - 1
    /\ UNCHANGED <<features, result, phase, store, op, waited, sleep_left,
                   lockFd, max_priority, created_features, ret, wrote,
                   assigned, crashes>>

\* Date.now() advances by Quantum; the values saturate where the code no
\* longer tells them apart (elapsed >= LOCK_TIMEOUT, age > LOCK_TIMEOUT)
Tick ==
    /\ \A p \in Procs : pc[p] \notin Urgent
    /\ waited' = [p \in Procs |->
                    IF pc[p] \in InLockPriority /\ waited[p] < LOCK_TIMEOUT
                    THEN waited[p] + Quantum ELSE waited[p]]
    /\ sleep_left' = [p \in Procs |->
                    IF sleep_left[p] > Quantum THEN sleep_left[p] - Quantum ELSE 0]
    /\ marker' = IF marker # NoMarker /\ marker.age <= LOCK_TIMEOUT
                 THEN [marker EXCEPT !.age = @ + Quantum] ELSE marker
    /\ <<waited', sleep_left', marker'>> # <<waited, sleep_left, marker>>
    /\ UNCHANGED <<features, result, phase, store, pc, op, lockFd,
                   max_priority, created_features, ret, wrote, assigned,
                   calls, crashes>>


(***************************************************************************)
(* The dependency tools (index.ts 1110-1224 and 1423-1498).  Each call     *)
(* reads the store and checks its arguments in one step; a call that       *)
(* passes goes on to its UPDATE statement, which is a step of its own      *)
(* because nothing in the handlers holds the store between the two.        *)
(***************************************************************************)
\* all_features_rows.map(row => ({id: row.id, ..., dependencies: ...}))
all_features(rows) ==
    [i \in DOMAIN rows |->
        [id |-> i, priority |-> rows[i].priority,
         dependencies |-> rows[i].dependencies,
         passes |-> rows[i].passes, in_progress |-> rows[i].in_progress]]

\* all_features.map(f => f.id === feature_id ? {...f, dependencies} : f)
test_features(fs, feature_id, dependency_ids) ==
    [i \in DOMAIN fs |->
        IF fs[i].id = feature_id
        THEN [fs[i] EXCEPT !.dependencies = dependency_ids]
        ELSE fs[i]]

\* the call goes on to its UPDATE statement with the list it will save
EnterUpdate(p, o) ==
    /\ calls' = calls + 1
    /\ op' = [op EXCEPT ![p] = o]
    /\ wrote' = [wrote EXCEPT ![p] = 0]
    /\ pc' = [pc EXCEPT ![p] = "update_deps"]
    /\ ret' = [ret EXCEPT ![p] = "running"]
    /\ UNCHANGED waited

\* feature_add_dependency without lines 1157-1159
feature_add_dependency_unchecked(p, feature_id, dependency_id) ==
    /\ CanCall(p)
    /\ IF feature_id = dependency_id
       THEN ReturnEarly(p, "error: self")
       ELSE IF feature_id \notin DOMAIN store
       THEN ReturnEarly(p, "error: not found")
       ELSE IF dependency_id \notin DOMAIN store
       THEN ReturnEarly(p, "error: dependency not found")
       ELSE LET current_deps == store[feature_id].dependencies
            IN  IF Len(current_deps) >= MAX_DEPENDENCIES
                THEN ReturnEarly(p, "error: max dependencies")
                ELSE IF dependency_id \in Range(current_deps)
                THEN ReturnEarly(p, "error: exists")
                ELSE EnterUpdate(p, [kind |-> "add", feature_id |-> feature_id,
                                     dependencies |->
                                         SortAsc(Append(current_deps, dependency_id))])
    /\ UNCHANGED <<features, result, phase, store, marker, sleep_left, lockFd,
                   max_priority, created_features, assigned, crashes>>

\* feature_add_dependency, lines 1110-1162
feature_add_dependency(p, feature_id, dependency_id) ==
    /\ CanCall(p)
    /\ IF feature_id = dependency_id
       THEN ReturnEarly(p, "error: self")
       ELSE IF feature_id \notin DOMAIN store
       THEN ReturnEarly(p, "error: not found")
       ELSE IF dependency_id \notin DOMAIN store
       THEN ReturnEarly(p, "error: dependency not found")
       ELSE LET current_deps == store[feature_id].dependencies
            IN  IF Len(current_deps) >= MAX_DEPENDENCIES
                THEN ReturnEarly(p, "error: max dependencies")
                ELSE IF dependency_id \in Range(current_deps)
                THEN ReturnEarly(p, "error: exists")
                ELSE IF would_create_circular_dependency(
                            all_features(store), feature_id, dependency_id).value
                THEN ReturnEarly(p, "error: circular")
                ELSE EnterUpdate(p, [kind |-> "add", feature_id |-> feature_id,
                                     dependencies |->
                                         SortAsc(Append(current_deps, dependency_id))])
    /\ UNCHANGED <<features, result, phase, store, marker, sleep_left, lockFd,
                   max_priority, created_features, assigned, crashes>>

\* feature_remove_dependency, lines 1193-1213
feature_remove_dependency(p, feature_id, dependency_id) ==
    /\ CanCall(p)
    /\ IF feature_id \notin DOMAIN store
       THEN ReturnEarly(p, "error: not found")
       ELSE LET current_deps == store[feature_id].dependencies
            IN  IF dependency_id \notin Range(current_deps)
                THEN ReturnEarly(p, "error: does not exist")
                ELSE EnterUpdate(p, [kind |-> "remove", feature_id |-> feature_id,
                                     dependencies |->
                                         FilterSeq(current_deps,
                                                   Range(current_deps) \ {dependency_id})])
    /\ UNCHANGED <<features, result, phase, store, marker, sleep_left, lockFd,
                   max_priority, created_features, assigned, crashes>>

\* the loop of lines 1475-1481: the first dependency id, in list order, that
\* would_create_circular_dependency rejects (0 when it rejects none)
FirstCircular(fs, feature_id, dependency_ids) ==
    LET bad == {k \in DOMAIN dependency_ids :
                   would_create_circular_dependency(
                       fs, feature_id, dependency_ids[k]).value}
    IN  IF bad = {} THEN 0
        ELSE dependency_ids[CHOOSE k \in bad : \A j \in bad : k <= j]

\* feature_set_dependencies without lines 1432-1436
feature_set_dependencies_no_limit(p, feature_id, dependency_ids) ==
    /\ CanCall(p)
    /\ IF feature_id \in Range(dependency_ids)
       THEN ReturnEarly(p, "error: self")
       ELSE IF HasDuplicates(dependency_ids)
       THEN ReturnEarly(p, "error: duplicates")
       ELSE IF feature_id \notin DOMAIN store
       THEN ReturnEarly(p, "error: not found")
       ELSE IF \E k \in DOMAIN dependency_ids : dependency_ids[k] \notin DOMAIN store
       THEN ReturnEarly(p, "error: dependency not found")
       ELSE IF FirstCircular(test_features(all_features(store), feature_id,
                                           dependency_ids),
                             feature_id, dependency_ids) # 0
       THEN ReturnEarly(p, "error: circular")
       ELSE EnterUpdate(p, [kind |-> "set", feature_id |-> feature_id,
                            dependencies |-> SortAsc(dependency_ids)])
    /\ UNCHANGED <<features, result, phase, store, marker, sleep_left, lockFd,
                   max_priority, created_features, assigned, crashes>>

\* feature_set_dependencies, lines 1423-1486
feature_set_dependencies(p, feature_id, dependency_ids) ==
    /\ CanCall(p)
    /\ IF feature_id \in Range(dependency_ids)
       THEN ReturnEarly(p, "error: self")
       ELSE IF Len(dependency_ids) > MAX_DEPENDENCIES
       THEN ReturnEarly(p, "error: max dependencies")
       ELSE IF HasDuplicates(dependency_ids)
       THEN ReturnEarly(p, "error: duplicates")
       ELSE IF feature_id \notin DOMAIN store
       THEN ReturnEarly(p, "error: not found")
       ELSE IF \E k \in DOMAIN dependency_ids : dependency_ids[k] \notin DOMAIN store
       THEN ReturnEarly(p, "error: dependency not found")
       ELSE IF FirstCircular(test_features(all_features(store), feature_id,
                                           dependency_ids),
                             feature_id, dependency_ids) # 0
       THEN ReturnEarly(p, "error: circular")
       ELSE EnterUpdate(p, [kind |-> "set", feature_id |-> feature_id,
                            dependencies |-> SortAsc(dependency_ids)])
    /\ UNCHANGED <<features, result, phase, store, marker, sleep_left, lockFd,
                   max_priority, created_features, assigned, crashes>>

\* UPDATE features SET dependencies = ? WHERE id = ? (lines 1165-1169,
\* 1213-1217 and 1487) and the success payload
update_dependencies(p) ==
    /\ pc[p] = "update_deps"
    /\ store' = [store EXCEPT ![op[p].feature_id].dependencies = op[p].dependencies]
    /\ wrote' = [wrote EXCEPT ![p] = @ + 1]
    /\ pc' = [pc EXCEPT ![p] = "idle"]
    /\ ret' = [ret EXCEPT ![p] = "success"]
    /\ op' = [op EXCEPT ![p] = NoOp]
    /\ UNCHANGED <<features, result, phase, marker, waited, sleep_left, lockFd,
                   max_priority, created_features, assigned, calls, crashes>>


(***************************************************************************)
(* feature_mark_in_progress and feature_claim_and_get (index.ts 750-845).  *)
(* Each call reads the row and decides in one step; its UPDATE statement   *)
(* is a step of its own, because the handlers open no transaction and      *)
(* hold no lock.  op[p] keeps the call and its argument until the next     *)
(* call of process p.                                                      *)
(***************************************************************************)
\* the call returns its payload without writing
ReturnPayload(p, o, payload) ==
    /\ calls' = calls + 1
    /\ op' = [op EXCEPT ![p] = o]
    /\ wrote' = [wrote EXCEPT ![p] = 0]
    /\ pc' = [pc EXCEPT ![p] = "idle"]
    /\ ret' = [ret EXCEPT ![p] = payload]
    /\ UNCHANGED waited

\* the call goes on to UPDATE features SET in_progress = 1
EnterUpdateInProgress(p, o) ==
    /\ calls' = calls + 1
    /\ op' = [op EXCEPT ![p] = o]
    /\ wrote' = [wrote EXCEPT ![p] = 0]
    /\ pc' = [pc EXCEPT ![p] = "update_in_progress"]
    /\ ret' = [ret EXCEPT ![p] = "running"]
    /\ UNCHANGED waited

\* feature_mark_in_progress, lines 750-766
feature_mark_in_progress(p, feature_id) ==
    /\ CanCall(p)
    /\ LET o == [kind |-> "mark", feature_id |-> feature_id]
       IN  IF feature_id \notin DOMAIN store
           THEN ReturnPayload(p, o, "error: not found")
           ELSE IF store[feature_id].passes
           THEN ReturnPayload(p, o, "error: passing")
           ELSE IF store[feature_id].in_progress
           THEN ReturnPayload(p, o, "error: in progress")
           ELSE EnterUpdateInProgress(p, o)
    /\ UNCHANGED <<features, result, phase, store, marker, sleep_left, lockFd,
                   max_priority, created_features, assigned, crashes>>

\* the payload of feature_claim_and_get, lines 829-841: the row fetched in
\* line 829 and the flag
ClaimPayload(rows, feature_id, already_claimed) ==
    [feature |-> all_features(rows)[feature_id],
     already_claimed |-> already_claimed]

\* a feature_claim_and_get that sets already_claimed to false in every payload
feature_claim_and_get_always_fresh(p, feature_id) ==
    /\ CanCall(p)
    /\ LET o == [kind |-> "claim", feature_id |-> feature_id]
       IN  IF feature_id \notin DOMAIN store
           THEN ReturnPayload(p, o, "error: not found") /\ UNCHANGED result
           ELSE IF store[feature_id].passes
           THEN ReturnPayload(p, o, "error: passing") /\ UNCHANGED result
           ELSE IF store[feature_id].in_progress
           THEN /\ ReturnPayload(p, o, "already_claimed: false")
                /\ result' = ClaimPayload(store, feature_id, FALSE)
           ELSE EnterUpdateInProgress(p, o) /\ UNCHANGED result
    /\ UNCHANGED <<features, phase, store, marker, sleep_left, lockFd,
                   max_priority, created_features, assigned, crashes>>

\* feature_claim_and_get, lines 808-843: when the row is in progress there
\* is no UPDATE and the payload has already_claimed = true.  result holds
\* the last payload of the tool that is not an error.
feature_claim_and_get(p, feature_id) ==
    /\ CanCall(p)
    /\ LET o == [kind |-> "claim", feature_id |-> feature_id]
       IN  IF feature_id \notin DOMAIN store
           THEN ReturnPayload(p, o, "error: not found") /\ UNCHANGED result
           ELSE IF store[feature_id].passes
           THEN ReturnPayload(p, o, "error: passing") /\ UNCHANGED result
           ELSE IF store[feature_id].in_progress
           THEN /\ ReturnPayload(p, o, "already_claimed: true")
                /\ result' = ClaimPayload(store, feature_id, TRUE)
           ELSE EnterUpdateInProgress(p, o) /\ UNCHANGED result
    /\ UNCHANGED <<features, phase, store, marker, sleep_left, lockFd,
                   max_priority, created_features, assigned, crashes>>

\* UPDATE features SET in_progress = 1 WHERE id = ? (lines 768 and 825), the
\* SELECT after it (771 and 829) and the payload: the feature from
\* feature_mark_in_progress, the feature with already_claimed = false from
\* feature_claim_and_get
update_in_progress(p) ==
    /\ pc[p] = "update_in_progress"
    /\ store' = [store EXCEPT ![op[p].feature_id].in_progress = TRUE]
    /\ wrote' = [wrote EXCEPT ![p] = @ + 1]
    /\ pc' = [pc EXCEPT ![p] = "idle"]
    /\ ret' = [ret EXCEPT ![p] = IF op[p].kind = "mark" THEN "success"
                                  ELSE "already_claimed: false"]
    /\ result' = IF op[p].kind = "claim"
                 THEN ClaimPayload(store', op[p].feature_id, FALSE)
                 ELSE result
    /\ UNCHANGED <<features, phase, marker, op, waited, sleep_left,
                   lockFd, max_priority, created_features, assigned, calls,
                   crashes>>

\* the call goes on to its UPDATE of passes and in_progress
EnterUpdateFlags(p, o) ==
    /\ calls' = calls + 1
    /\ op' = [op EXCEPT ![p] = o]
    /\ wrote' = [wrote EXCEPT ![p] = 0]
    /\ pc' = [pc EXCEPT ![p] = "update_flags"]
    /\ ret' = [ret EXCEPT ![p] = "running"]
    /\ UNCHANGED waited

\* feature_mark_passing (587-595), feature_mark_failing (634-642) and
\* feature_clear_in_progress (859-866) up to their UPDATE: kind is
\* "passing", "failing" or "clear"
FlagCall(p, kind, feature_id) ==
    /\ CanCall(p)
    /\ LET o == [kind |-> kind, feature_id |-> feature_id]
       IN  IF feature_id \notin DOMAIN store
           THEN ReturnPayload(p, o, "error: not found")
           ELSE EnterUpdateFlags(p, o)
    /\ UNCHANGED <<features, result, phase, store, marker, sleep_left, lockFd,
                   max_priority, created_features, assigned, crashes>>

feature_mark_passing(p, feature_id) == FlagCall(p, "passing", feature_id)

feature_mark_failing(p, feature_id) == FlagCall(p, "failing", feature_id)

feature_clear_in_progress(p, feature_id) == FlagCall(p, "clear", feature_id)

\* an UPDATE of passes that leaves in_progress as it is
update_flags_keeps_in_progress(p) ==
    /\ pc[p] = "update_flags"
    /\ store' = [store EXCEPT ![op[p].feature_id] =
          IF op[p].kind = "clear"
          THEN [@ EXCEPT !.in_progress = FALSE]
          ELSE [@ EXCEPT !.passes = (op[p].kind = "passing")]]
    /\ wrote' = [wrote EXCEPT ![p] = @ + 1]
    /\ pc' = [pc EXCEPT ![p] = "idle"]
    /\ ret' = [ret EXCEPT ![p] = "success"]
    /\ UNCHANGED <<features, result, phase, marker, op, waited, sleep_left,
                   lockFd, max_priority, created_features, assigned, calls,
                   crashes>>

\* UPDATE features SET passes = ?, in_progress = 0 (lines 596-601 with
\* passes = 1, lines 643-648 with passes = 0) and UPDATE features SET
\* in_progress = 0 (line 868), with the payload after it
update_flags(p) ==
    /\ pc[p] = "update_flags"
    /\ store' = [store EXCEPT ![op[p].feature_id] =
          IF op[p].kind = "clear"
          THEN [@ EXCEPT !.in_progress = FALSE]
          ELSE [@ EXCEPT !.passes = (op[p].kind = "passing"),
                         !.in_progress = FALSE]]
    /\ wrote' = [wrote EXCEPT ![p] = @ + 1]
    /\ pc' = [pc EXCEPT ![p] = "idle"]
    /\ ret' = [ret EXCEPT ![p] = "success"]
    /\ UNCHANGED <<features, result, phase, marker, op, waited, sleep_left,
                   lockFd, max_priority, created_features, assigned, calls,
                   crashes>>

(***************************************************************************)
(* Snapshots the engine is run on.                                         *)
(***************************************************************************)
Ids == 1..MaxId

Priorities == 1..MaxPriority

\* feature ids in input order: pairwise distinct
IdSeqs == {s \in SeqsUpTo(Ids, MaxFeatures) :
              \A i, j \in DOMAIN s : s[i] = s[j] => i = j}

\* the dependency entries of a snapshot of n features, as <<position, dep id>>
\* pairs grouped by position; the entries of one feature keep their order
EdgeLists(n) ==
    {e \in SeqsUpTo((1..n) \X Ids, MaxEdges) :
        \A i \in 1..(Len(e) - 1) : e[i][1] <= e[i + 1][1]}

RECURSIVE DepsOf(_, _)
DepsOf(e, pos) ==
    IF e = <<>> THEN <<>>
    ELSE IF Head(e)[1] = pos
         THEN <<Head(e)[2]>> \o DepsOf(Tail(e), pos)
         ELSE DepsOf(Tail(e), pos)

Snapshot(ids, pr, e, ps) ==
    [i \in 1..Len(ids) |->
        [id |-> ids[i], priority |-> pr[i], dependencies |-> DepsOf(e, i),
         passes |-> ps[i], in_progress |-> FALSE]]

\* the tools are not running while the engine is examined
ToolsAtRest ==
    /\ store = <<>>
    /\ marker = NoMarker
    /\ pc = [p \in Procs |-> "idle"]
    /\ op = [p \in Procs |-> NoOp]
    /\ waited = [p \in Procs |-> 0]
    /\ sleep_left = [p \in Procs |-> 0]
    /\ lockFd = [p \in Procs |-> FALSE]
    /\ max_priority = [p \in Procs |-> 0]
    /\ created_features = [p \in Procs |-> <<>>]
    /\ ret = [p \in Procs |-> "none"]
    /\ wrote = [p \in Procs |-> 0]
    /\ assigned = <<>>
    /\ calls = 0
    /\ crashes = 0

InitResolve ==
    /\ \E ids \in IdSeqs :
         \E pr \in [1..Len(ids) -> Priorities] :
           \E e \in EdgeLists(Len(ids)) :
              features = Snapshot(ids, pr, e, [i \in 1..Len(ids) |-> FALSE])
    /\ result = NoResult
    /\ phase = "input"
    /\ ToolsAtRest

Resolve ==
    /\ phase = "input"
    /\ result' = resolve_dependencies(features)
    /\ phase' = "resolved"
    /\ UNCHANGED <<features, store, marker, pc, op, waited, sleep_left, lockFd,
                   max_priority, created_features, ret, wrote, assigned,
                   calls, crashes>>

(***************************************************************************)
(* would_create_circular_dependency on the small snapshots and on chains   *)
(* 1 -> 2 -> ... -> n about MAX_DEPENDENCY_DEPTH long.                     *)
(***************************************************************************)
(***************************************************************************)
(* _detect_cycles on the small snapshots and on chains 1 -> 2 -> ... -> n  *)
(* about MAX_DEPENDENCY_DEPTH long whose last feature depends on the first *)
(* one or on itself, so that every feature is unsortable.                  *)
(***************************************************************************)
ClosedChain(n, back) ==
    [i \in 1..n |->
        [id |-> i, priority |-> i,
         dependencies |-> IF i < n THEN <<i + 1>> ELSE <<back>>,
         passes |-> FALSE, in_progress |-> FALSE]]

InitDetect ==
    /\ \/ \E ids \in IdSeqs :
            \E e \in EdgeLists(Len(ids)) :
               features = Snapshot(ids, [i \in 1..Len(ids) |-> 1], e,
                                   [i \in 1..Len(ids) |-> FALSE])
       \/ \E n \in (MAX_DEPENDENCY_DEPTH - 1)..(MAX_DEPENDENCY_DEPTH + ChainSlack) :
            \E back \in {1, n} :
               features = ClosedChain(n, back)
    /\ result = NoResult
    /\ phase = "input"
    /\ ToolsAtRest

DetectCycles ==
    /\ phase = "input"
    /\ result' = [cycles   |-> DetectState(features).cycles,
                  deepest  |-> DetectState(features).deepest,
                  returned |-> DetectDone(features, DetectState(features))]
    /\ phase' = "detected"
    /\ UNCHANGED <<features, store, marker, pc, op, waited, sleep_left, lockFd,
                   max_priority, created_features, ret, wrote, assigned,
                   calls, crashes>>

ChainLengths ==
    (MAX_DEPENDENCY_DEPTH - 1)..(MAX_DEPENDENCY_DEPTH + ChainSlack)

\* n features, feature i depends on feature i + 1; the last one depends on
\* nothing or on an id that no feature has; then a feature without
\* dependencies that nothing depends on
Chain(n, dangling) ==
    [i \in 1..(n + 1) |->
        [id |-> i, priority |-> i,
         dependencies |-> IF i < n THEN <<i + 1>>
                          ELSE IF i = n /\ dangling THEN <<n + MaxId + 2>>
                          ELSE <<>>,
         passes |-> FALSE, in_progress |-> FALSE]]

\* the ids the function is asked about: the first ids, the last two ids of a
\* chain snapshot and an id that no feature has
ProbeIds(fs) == Ids \cup {Len(fs) - 1, Len(fs), Len(fs) + MaxId + 1}

InitCycle ==
    /\ \/ \E ids \in IdSeqs :
            \E e \in EdgeLists(Len(ids)) :
               features = Snapshot(ids, [i \in 1..Len(ids) |-> 1], e,
                                   [i \in 1..Len(ids) |-> FALSE])
       \/ \E n \in ChainLengths : \E dangling \in BOOLEAN :
            features = Chain(n, dangling)
    /\ result = NoResult
    /\ phase = "input"
    /\ ToolsAtRest

WouldCreate(source_id, target_id) ==
    /\ phase = "input"
    /\ result' = [source_id |-> source_id, target_id |-> target_id] @@
                 would_create_circular_dependency(features, source_id, target_id)
    /\ phase' = "checked"
    /\ UNCHANGED <<features, store, marker, pc, op, waited, sleep_left, lockFd,
                   max_priority, created_features, ret, wrote, assigned,
                   calls, crashes>>

(***************************************************************************)
(* validate_dependencies on short lists over a few ids and on the lists    *)
(* 1, 2, ..., n with n about MAX_DEPENDENCIES.                             *)
(***************************************************************************)
\* an id greater than every entry of the long lists
FarId == MAX_DEPENDENCIES + ListSlack + 1

LongLists ==
    {[i \in 1..n |-> i] : n \in (MAX_DEPENDENCIES - 1)..(MAX_DEPENDENCIES + ListSlack)}

DependencyLists == SeqsUpTo(Ids \cup {MaxId + 1}, MaxEdges) \cup LongLists

FeatureIdSets == (SUBSET Ids) \cup {1..FarId}

InitValidate ==
    /\ features = <<>>
    /\ result = NoResult
    /\ phase = "input"
    /\ ToolsAtRest

Validate(feature_id, dependency_ids, all_feature_ids) ==
    /\ phase = "input"
    /\ result' = [feature_id |-> feature_id, dependency_ids |-> dependency_ids,
                  all_feature_ids |-> all_feature_ids] @@
                 validate_dependencies(feature_id, dependency_ids, all_feature_ids)
    /\ phase' = "validated"
    /\ UNCHANGED <<features, store, marker, pc, op, waited, sleep_left, lockFd,
                   max_priority, created_features, ret, wrote, assigned,
                   calls, crashes>>

(***************************************************************************)
(* compute_scheduling_scores on snapshots with priorities below, at and    *)
(* above the range 0..10 of the priority factor.                           *)
(***************************************************************************)
ScorePriorities == {-1, 0, 11}

InitScores ==
    /\ \E ids \in IdSeqs :
         \E pr \in [1..Len(ids) -> ScorePriorities] :
           \E e \in EdgeLists(Len(ids)) :
              features = Snapshot(ids, pr, e, [i \in 1..Len(ids) |-> FALSE])
    /\ result = NoResult
    /\ phase = "input"
    /\ ToolsAtRest

ComputeScores ==
    /\ phase = "input"
    /\ result' = compute_scheduling_scores(features)
    /\ phase' = "scored"
    /\ UNCHANGED <<features, store, marker, pc, op, waited, sleep_left, lockFd,
                   max_priority, created_features, ret, wrote, assigned,
                   calls, crashes>>

(***************************************************************************)
(* The two depth computations, compute_scheduling_scores and               *)
(* compute_depth over build_adjacency_list, on the same snapshots.         *)
(***************************************************************************)
InitDepth ==
    /\ \E ids \in IdSeqs :
         \E e \in EdgeLists(Len(ids)) :
            features = Snapshot(ids, [i \in 1..Len(ids) |-> 1], e,
                                [i \in 1..Len(ids) |-> FALSE])
    /\ result = NoResult
    /\ phase = "input"
    /\ ToolsAtRest

\* compute_depth(feature_id, build_adjacency_list(features)) with a new memo
ComputeDepth(feature_id) ==
    /\ phase = "input"
    /\ result' = [feature_id |-> feature_id] @@
                 compute_depth(feature_id, build_adjacency_list(features),
                               EmptyMap, {})
    /\ phase' = "depth"
    /\ UNCHANGED <<features, store, marker, pc, op, waited, sleep_left, lockFd,
                   max_priority, created_features, ret, wrote, assigned,
                   calls, crashes>>

(***************************************************************************)
(* get_ready_features and get_blocked_features on snapshots with passes    *)
(* and in_progress flags; the features come in ascending id order.         *)
(***************************************************************************)
AscendingIdSeqs ==
    {s \in IdSeqs : \A i \in 1..(Len(s) - 1) : s[i] < s[i + 1]}

InitReady ==
    /\ \E ids \in AscendingIdSeqs :
         \E e \in EdgeLists(Len(ids)) :
           \E ps \in [1..Len(ids) -> BOOLEAN] :
             \E ip \in [1..Len(ids) -> BOOLEAN] :
                features =
                    [i \in 1..Len(ids) |->
                        [Snapshot(ids, [k \in 1..Len(ids) |-> 1], e, ps)[i]
                            EXCEPT !.in_progress = ip[i]]]
    /\ result = NoResult
    /\ phase = "input"
    /\ ToolsAtRest

\* get_ready_features with a limit that is at least the snapshot size
GetReady ==
    /\ phase = "input"
    /\ result' = get_ready_features(features, Len(features))
    /\ phase' = "ready"
    /\ UNCHANGED <<features, store, marker, pc, op, waited, sleep_left, lockFd,
                   max_priority, created_features, ret, wrote, assigned,
                   calls, crashes>>

GetBlocked ==
    /\ phase = "input"
    /\ result' = get_blocked_features(features)
    /\ phase' = "blocked"
    /\ UNCHANGED <<features, store, marker, pc, op, waited, sleep_left, lockFd,
                   max_priority, created_features, ret, wrote, assigned,
                   calls, crashes>>


BuildGraphData ==
    /\ phase = "input"
    /\ result' = build_graph_data(features)
    /\ phase' = "graph"
    /\ UNCHANGED <<features, store, marker, pc, op, waited, sleep_left, lockFd,
                   max_priority, created_features, ret, wrote, assigned,
                   calls, crashes>>

(***************************************************************************)
(* retry_on_busy (database-utils.ts 18-49).  features is the behaviour of  *)
(* the operation, one outcome per invocation: "ok" returns a value, "busy" *)
(* throws an Error whose message contains SQLITE_BUSY, "other" throws an   *)
(* Error without it, "value" throws something that is not an Error.  The   *)
(* value returned or thrown by invocation i is [kind, at |-> i].  result   *)
(* is the state of the call: its position, the loop variable attempt, the  *)
(* number of invocations made, last_error, and the settled promise.        *)
(***************************************************************************)
RETRY_DELAYS == <<100, 200, 400, 800, 1600>>

OutcomeKinds == {"ok", "busy", "other", "value"}

Operations == [1..(Len(RETRY_DELAYS) + 1) -> OutcomeKinds]

Undefined == [kind |-> "undefined", at |-> 0]

\* a retry that goes on after every Error
IsBusy_any_error(error) == error.kind \in {"busy", "other"}

\* error instanceof Error && error.message.includes('SQLITE_BUSY'), line 28
IsBusy(error) == error.kind = "busy"

InitRetry ==
    /\ features \in Operations
    /\ result = [at |-> "loop", attempt |-> 0, invocations |-> 0,
                 last_error |-> Undefined, delay |-> 0,
                 settled |-> "pending", with |-> Undefined]
    /\ phase = "retry"
    /\ store = <<>>
    /\ marker = NoMarker
    /\ pc = [p \in Procs |-> "idle"]
    /\ op = [p \in Procs |-> NoOp]
    /\ waited = [p \in Procs |-> 0]
    /\ sleep_left = [p \in Procs |-> 0]
    /\ lockFd = [p \in Procs |-> FALSE]
    /\ max_priority = [p \in Procs |-> 0]
    /\ created_features = [p \in Procs |-> <<>>]
    /\ ret = [p \in Procs |-> "none"]
    /\ wrote = [p \in Procs |-> 0]
    /\ assigned = <<>>
    /\ calls = 0
    /\ crashes = 0

\* lines 21-44: one pass of the loop body up to its return, throw or await
retry_invoke ==
    /\ phase = "retry"
    /\ result.at = "loop"
    /\ result.attempt < Len(RETRY_DELAYS)
    /\ LET i == result.invocations + 1
           outcome == [kind |-> features[i], at |-> i]
       IN  result' =
             IF outcome.kind = "ok"
             THEN [result EXCEPT !.invocations = i, !.at = "done",
                                 !.settled = "resolved", !.with = outcome]
             ELSE IF IsBusy(outcome)
             THEN [result EXCEPT !.invocations = i, !.at = "wait",
                                 !.last_error = outcome,
                                 !.delay = RETRY_DELAYS[result.attempt + 1]]
             ELSE [result EXCEPT !.invocations = i, !.at = "done",
                                 !.last_error = outcome,
                                 !.settled = "rejected", !.with = outcome]
    /\ UNCHANGED <<features, phase, store, marker, pc, op, waited, sleep_left,
                   lockFd, max_priority, created_features, ret, wrote,
                   assigned, calls, crashes>>

\* lines 38-39: the timer of the delay fires, continue with attempt++
retry_timeout ==
    /\ phase = "retry"
    /\ result.at = "wait"
    /\ result' = [result EXCEPT !.at = "loop", !.attempt = @ + 1,
                                !.delay = 0]
    /\ UNCHANGED <<features, phase, store, marker, pc, op, waited, sleep_left,
                   lockFd, max_priority, created_features, ret, wrote,
                   assigned, calls, crashes>>

\* line 48: throw last_error once the loop condition fails
retry_exhausted ==
    /\ phase = "retry"
    /\ result.at = "loop"
    /\ result.attempt >= Len(RETRY_DELAYS)
    /\ result' = [result EXCEPT !.at = "done", !.settled = "rejected",
                                !.with = result.last_error]
    /\ UNCHANGED <<features, phase, store, marker, pc, op, waited, sleep_left,
                   lockFd, max_priority, created_features, ret, wrote,
                   assigned, calls, crashes>>

vars == <<features, result, phase, store, marker, pc, op, waited, sleep_left,
          lockFd, max_priority, created_features, ret, wrote, assigned, calls,
          crashes>>

NextResolve == Resolve

SpecResolve == InitResolve /\ [][NextResolve]_vars

NextCycle ==
    \E source_id \in ProbeIds(features) : \E target_id \in ProbeIds(features) :
        WouldCreate(source_id, target_id)

SpecCycle == InitCycle /\ [][NextCycle]_vars

NextDetect == DetectCycles

SpecDetect == InitDetect /\ [][NextDetect]_vars

NextValidate ==
    \E feature_id \in Ids \cup {FarId} : \E dependency_ids \in DependencyLists :
        \E all_feature_ids \in FeatureIdSets :
            Validate(feature_id, dependency_ids, all_feature_ids)

SpecValidate == InitValidate /\ [][NextValidate]_vars

NextScores == ComputeScores

SpecScores == InitScores /\ [][NextScores]_vars

NextDepth ==
    \/ ComputeScores
    \/ \E i \in DOMAIN features : ComputeDepth(features[i].id)

SpecDepth == InitDepth /\ [][NextDepth]_vars

NextReady == GetReady \/ GetBlocked

SpecReady == InitReady /\ [][NextReady]_vars


\* the three views of one snapshot: ready, blocked, graph
NextStatus == GetReady \/ GetBlocked \/ BuildGraphData

SpecStatus == InitReady /\ [][NextStatus]_vars

NextRetry == retry_invoke \/ retry_timeout \/ retry_exhausted

\* the operation returns or throws, and a timer that was set fires
SpecRetry == InitRetry /\ [][NextRetry]_vars /\ WF_vars(NextRetry)

(***************************************************************************)
(* The tools run by NumProcs processes on an empty store.                  *)
(***************************************************************************)
Init ==
    /\ features = <<>>
    /\ result = NoResult
    /\ phase = "tools"
    /\ ToolsAtRest

Next ==
    \/ \E p \in Procs : feature_create(p)
    \/ \E p \in Procs : \E feature_id \in 1..(Len(store) + 1) :
           feature_skip(p, feature_id)
    \/ \E p \in Procs : \E input \in BulkInputs : feature_create_bulk(p, input)
    \/ \E p \in Procs : lockPriority_open(p)
    \/ \E p \in Procs : lockPriority_open_error(p)
    \/ \E p \in Procs : sleepSync(p)
    \/ \E p \in Procs : lockPriority_stat(p)
    \/ \E p \in Procs : lockPriority_unlink(p)
    \/ \E p \in Procs : catch_lock_error(p)
    \/ \E p \in Procs : select_max(p)
    \/ \E p \in Procs : insert_feature(p)
    \/ \E p \in Procs : update_priority(p)
    \/ \E p \in Procs : insert_bulk_feature(p)
    \/ \E p \in Procs : set_bulk_dependencies(p)
    \/ \E p \in Procs : store_throws(p)
    \/ \E p \in Procs : unlockPriority(p)
    \/ \E p \in Procs : crash(p)
    \/ Tick

Spec == Init /\ [][Next]_vars

(***************************************************************************)
(* The same tools called one at a time: a call starts only when no other   *)
(* process is inside a call.                                               *)
(***************************************************************************)
OthersAtRest(p) == \A q \in Procs \ {p} : pc[q] \in {"idle", "crashed"}

\* a statement of the call that process p is executing
Step(p) ==
    \/ lockPriority_open(p)
    \/ sleepSync(p)
    \/ lockPriority_stat(p)
    \/ lockPriority_unlink(p)
    \/ catch_lock_error(p)
    \/ select_max(p)
    \/ insert_feature(p)
    \/ update_priority(p)
    \/ insert_bulk_feature(p)
    \/ set_bulk_dependencies(p)
    \/ unlockPriority(p)

NextSeq ==
    \/ \E p \in Procs : OthersAtRest(p) /\ feature_create(p)
    \/ \E p \in Procs : \E feature_id \in 1..(Len(store) + 1) :
           OthersAtRest(p) /\ feature_skip(p, feature_id)
    \/ \E p \in Procs : \E input \in BulkInputs :
           OthersAtRest(p) /\ feature_create_bulk(p, input)
    \/ \E p \in Procs : Step(p)
    \/ \E p \in Procs : lockPriority_open_error(p)
    \/ \E p \in Procs : store_throws(p)
    \/ \E p \in Procs : crash(p)
    \/ Tick

SpecSeq == Init /\ [][NextSeq]_vars


(***************************************************************************)
(* The dependency tools on a store that starts empty.  Features come from  *)
(* feature_create and feature_create_bulk, one creating call at a time so  *)
(* that lockPriority never waits; the calls of the dependency tools start  *)
(* between creating calls and interleave, statement by statement, with     *)
(* each other.  The arguments are the first ids, the last ids of the store *)
(* and an id that no row has; the lists are short lists of the first ids   *)
(* and the lists 1, 2, ..., n with n about MAX_DEPENDENCIES.               *)
(***************************************************************************)
\* a batch of n features without dependencies, then one that depends on all
\* of them, then one that depends on that one
FanBatch(n) ==
    [i \in 1..(n + 2) |->
        [fields |-> TRUE,
         depends_on_indices |->
            IF i = n + 1 THEN [k \in 1..n |-> Whole(k - 1)]
            ELSE IF i = n + 2 THEN <<Whole(n)>>
            ELSE <<>>]]

FanBatches == {FanBatch(n) : n \in MAX_DEPENDENCIES..(MAX_DEPENDENCIES + ListSlack)}

DepIds(rows) ==
    Ids \cup {i \in (Len(rows) - 1)..(Len(rows) + 1) : i >= 1}

DepLists ==
    SeqsUpTo(Ids, 2)
        \cup {[k \in 1..n |-> k] :
                 n \in MAX_DEPENDENCIES..(MAX_DEPENDENCIES + ListSlack)}

\* no process is inside feature_create or feature_create_bulk
NoneCreating == \A q \in Procs : pc[q] \in {"idle", "update_deps"}

\* a statement of the creating call that process p is executing
CreateStep(p) ==
    \/ lockPriority_open(p)
    \/ select_max(p)
    \/ insert_feature(p)
    \/ insert_bulk_feature(p)
    \/ set_bulk_dependencies(p)
    \/ unlockPriority(p)

\* process p starts a call of one of the dependency tools
DependencyCall(p) ==
    \/ \E feature_id \in DepIds(store) : \E dependency_id \in DepIds(store) :
           feature_add_dependency(p, feature_id, dependency_id)
    \/ \E feature_id \in DepIds(store) : \E dependency_id \in DepIds(store) :
           feature_remove_dependency(p, feature_id, dependency_id)
    \/ \E feature_id \in DepIds(store) : \E dependency_ids \in DepLists :
           feature_set_dependencies(p, feature_id, dependency_ids)

NextDeps ==
    \/ \E p \in Procs : NoneCreating /\ feature_create(p)
    \/ \E p \in Procs : \E input \in BulkInputs \cup FanBatches :
           NoneCreating /\ feature_create_bulk(p, input)
    \/ \E p \in Procs : CreateStep(p)
    \/ \E p \in Procs : NoneCreating /\ DependencyCall(p)
    \/ \E p \in Procs : update_dependencies(p)

SpecDeps == Init /\ [][NextDeps]_vars

\* the same calls executed one at a time
NextDepsSeq ==
    \/ \E p \in Procs : OthersAtRest(p) /\ feature_create(p)
    \/ \E p \in Procs : \E input \in BulkInputs \cup FanBatches :
           OthersAtRest(p) /\ feature_create_bulk(p, input)
    \/ \E p \in Procs : CreateStep(p)
    \/ \E p \in Procs : OthersAtRest(p) /\ DependencyCall(p)
    \/ \E p \in Procs : update_dependencies(p)

SpecDepsSeq == Init /\ [][NextDepsSeq]_vars


(***************************************************************************)
(* The claiming tools on a store of one or two features, each of them      *)
(* free, in progress or passing; the processes call the tools on the ids   *)
(* of the store and on an id that no row has, and their statements         *)
(* interleave.                                                             *)
(***************************************************************************)
RowStates ==
    {[priority |-> 1, passes |-> ps, in_progress |-> ip, dependencies |-> <<>>] :
        ps \in BOOLEAN, ip \in BOOLEAN} \
    {[priority |-> 1, passes |-> TRUE, in_progress |-> TRUE, dependencies |-> <<>>]}

InitClaim ==
    /\ features = <<>>
    /\ result = NoResult
    /\ phase = "tools"
    /\ \E n \in 1..2 : \E rows \in [1..n -> RowStates] :
          store = [i \in 1..n |-> [rows[i] EXCEPT !.priority = i]]
    /\ marker = NoMarker
    /\ pc = [p \in Procs |-> "idle"]
    /\ op = [p \in Procs |-> NoOp]
    /\ waited = [p \in Procs |-> 0]
    /\ sleep_left = [p \in Procs |-> 0]
    /\ lockFd = [p \in Procs |-> FALSE]
    /\ max_priority = [p \in Procs |-> 0]
    /\ created_features = [p \in Procs |-> <<>>]
    /\ ret = [p \in Procs |-> "none"]
    /\ wrote = [p \in Procs |-> 0]
    /\ assigned = <<>>
    /\ calls = 0
    /\ crashes = 0

NextClaim ==
    \/ \E p \in Procs : \E feature_id \in 1..(Len(store) + 1) :
           feature_mark_in_progress(p, feature_id)
    \/ \E p \in Procs : \E feature_id \in 1..(Len(store) + 1) :
           feature_claim_and_get(p, feature_id)
    \/ \E p \in Procs : update_in_progress(p)

SpecClaim == InitClaim /\ [][NextClaim]_vars


(***************************************************************************)
(* feature_skip and feature_create, one call at a time, on a store of one  *)
(* or two features with distinct priorities, each of them free, in         *)
(* progress or passing.                                                    *)
(***************************************************************************)
InitSkip ==
    /\ features = <<>>
    /\ result = NoResult
    /\ phase = "tools"
    /\ \E n \in 1..2 : \E rows \in [1..n -> RowStates] :
         \E pr \in [1..n -> 1..(n + 1)] :
            /\ \A i, j \in 1..n : pr[i] = pr[j] => i = j
            /\ store = [i \in 1..n |-> [rows[i] EXCEPT !.priority = pr[i]]]
    /\ marker = NoMarker
    /\ pc = [p \in Procs |-> "idle"]
    /\ op = [p \in Procs |-> NoOp]
    /\ waited = [p \in Procs |-> 0]
    /\ sleep_left = [p \in Procs |-> 0]
    /\ lockFd = [p \in Procs |-> FALSE]
    /\ max_priority = [p \in Procs |-> 0]
    /\ created_features = [p \in Procs |-> <<>>]
    /\ ret = [p \in Procs |-> "none"]
    /\ wrote = [p \in Procs |-> 0]
    /\ assigned = <<>>
    /\ calls = 0
    /\ crashes = 0

\* a statement of the feature_skip or feature_create call of process p
SkipStep(p) ==
    \/ lockPriority_open(p)
    \/ select_max(p)
    \/ insert_feature(p)
    \/ update_priority(p)
    \/ unlockPriority(p)

NextSkip ==
    \/ \E p \in Procs : \E feature_id \in 1..(Len(store) + 1) :
           OthersAtRest(p) /\ feature_skip(p, feature_id)
    \/ \E p \in Procs : OthersAtRest(p) /\ feature_create(p)
    \/ \E p \in Procs : SkipStep(p)

SpecSkip == InitSkip /\ [][NextSkip]_vars


(***************************************************************************)
(* Every tool that writes passes or in_progress, one call at a time, on    *)
(* the stores of InitSkip.                                                 *)
(***************************************************************************)
\* a new call of process p
FlagTool(p, feature_id) ==
    \/ feature_mark_passing(p, feature_id)
    \/ feature_mark_failing(p, feature_id)
    \/ feature_clear_in_progress(p, feature_id)
    \/ feature_mark_in_progress(p, feature_id)
    \/ feature_claim_and_get(p, feature_id)
    \/ feature_skip(p, feature_id)

NextFlags ==
    \/ \E p \in Procs : \E feature_id \in 1..(Len(store) + 1) :
           OthersAtRest(p) /\ FlagTool(p, feature_id)
    \/ \E p \in Procs : OthersAtRest(p) /\ feature_create(p)
    \/ \E p \in Procs : update_flags(p) \/ update_in_progress(p)
    \/ \E p \in Procs : SkipStep(p)

SpecFlags == InitSkip /\ [][NextFlags]_vars


(***************************************************************************)
(* feature_create_bulk on batches that the first pass accepts and on       *)
(* batches that it rejects in each of its ways.  A rejected call may come  *)
(* while another process is inside a creating call; accepted calls run one *)
(* at a time.                                                              *)
(***************************************************************************)
\* two features, the second with up to two indices among -1, -1/2, 0, 1/2,
\* 1 and 3/2
PairBatches ==
    {<<[fields |-> TRUE, depends_on_indices |-> <<>>],
       [fields |-> TRUE, depends_on_indices |-> l]>> :
        l \in SeqsUpTo([n : (-1)..1, half : BOOLEAN], 2)}

Batches == BulkInputs \cup FanBatches \cup PairBatches

NextBulk ==
    \/ \E p \in Procs : \E input \in Batches :
           /\ BulkValid(input) => NoneCreating
           /\ feature_create_bulk(p, input)
    \/ \E p \in Procs : lockPriority_open(p)
    \/ \E p \in Procs : select_max(p)
    \/ \E p \in Procs : insert_bulk_feature(p)
    \/ \E p \in Procs : set_bulk_dependencies(p)
    \/ \E p \in Procs : unlockPriority(p)

SpecBulk == Init /\ [][NextBulk]_vars

(***************************************************************************)
(* Progress of feature_create and feature_skip: every process goes on     *)
(* with the call it is executing and the clock goes on; nobody is obliged  *)
(* to start a call, and openSync fails with EEXIST only.                   *)
(***************************************************************************)
\* a statement of the feature_create or feature_skip call of process p
StepLive(p) ==
    \/ lockPriority_open(p)
    \/ sleepSync(p)
    \/ lockPriority_stat(p)
    \/ lockPriority_unlink(p)
    \/ catch_lock_error(p)
    \/ select_max(p)
    \/ insert_feature(p)
    \/ update_priority(p)
    \/ unlockPriority(p)

NextLive ==
    \/ \E p \in Procs : feature_create(p)
    \/ \E p \in Procs : \E feature_id \in 1..(Len(store) + 1) :
           feature_skip(p, feature_id)
    \/ \E p \in Procs : StepLive(p)
    \/ \E p \in Procs : store_throws(p)
    \/ \E p \in Procs : crash(p)
    \/ Tick

SpecLive ==
    /\ Init
    /\ [][NextLive]_vars
    /\ WF_vars(Tick)
    /\ \A p \in Procs : WF_vars(StepLive(p))

\* the same with a crashed process replaced by a new one
NextRespawn ==
    \/ NextLive
    \/ \E p \in Procs : respawn(p)

SpecRespawn ==
    /\ Init
    /\ [][NextRespawn]_vars
    /\ WF_vars(Tick)
    /\ \A p \in Procs : WF_vars(StepLive(p))

(***************************************************************************)
(* Graph notions the properties are stated with.                           *)
(***************************************************************************)
SnapshotIds(fs) == {fs[i].id : i \in DOMAIN fs}

\* the dependency ids of feature x that are present in the snapshot
PresentDeps(fs, x) ==
    {d \in SnapshotIds(fs) :
        \E i \in DOMAIN fs : fs[i].id = x /\ d \in Range(fs[i].dependencies)}

\* ids reachable from the set S over at most n further present-dependency edges
RECURSIVE Closure(_, _, _)
Closure(fs, S, n) ==
    IF n = 0 THEN S
    ELSE Closure(fs, S \cup UNION {PresentDeps(fs, x) : x \in S}, n - 1)

\* x transitively depends on y (one edge or more)
DependsOn(fs, x, y) == y \in Closure(fs, PresentDeps(fs, x), Len(fs))

Acyclic(fs) == \A x \in SnapshotIds(fs) : ~DependsOn(fs, x, x)

OrderedIds(r) == [i \in DOMAIN r.ordered_features |-> r.ordered_features[i].id]

\* position of id x in the sequence of ids s (0 when absent)
PosOf(s, x) == IF x \in Range(s) THEN CHOOSE i \in DOMAIN s : s[i] = x ELSE 0

\* (priority, id) of a is not after that of b
KeyLeq(a, b) == a.priority < b.priority \/ (a.priority = b.priority /\ a.id <= b.id)

(***************************************************************************)
(* C1: resolve_dependencies returns every input feature exactly once in    *)
(* ordered_features: same length as the snapshot, same id set, no loss and *)
(* no duplication, also with cycles, self-dependencies, duplicate and      *)
(* missing dependency ids.                                                 *)
(***************************************************************************)
C1_Totality ==
    phase = "resolved" =>
        /\ Len(result.ordered_features) = Len(features)
        /\ Range(OrderedIds(result)) = SnapshotIds(features)
        /\ \A x \in SnapshotIds(features) :
              Cardinality({i \in DOMAIN result.ordered_features :
                              result.ordered_features[i].id = x}) = 1

\* a resolved three-feature snapshot with a cycle and a duplicated entry
C1_Witness ==
    /\ phase = "resolved"
    /\ Len(features) = 3
    /\ result.circular_dependencies # <<>>
    /\ Len(result.ordered_features) = 3
    /\ \E i \in DOMAIN features :
          /\ Len(features[i].dependencies) = 2
          /\ features[i].dependencies[1] = features[i].dependencies[2]

(***************************************************************************)
(* C9: for an acyclic snapshot every feature appears in ordered_features   *)
(* after each of its dependencies that is present in the snapshot.         *)
(***************************************************************************)
C9_DependenciesFirst ==
    (phase = "resolved" /\ Acyclic(features)) =>
        \A x \in SnapshotIds(features) :
            \A d \in PresentDeps(features, x) :
                /\ PosOf(OrderedIds(result), d) > 0
                /\ PosOf(OrderedIds(result), d) < PosOf(OrderedIds(result), x)

\* an acyclic chain of three in which the dependent has the more urgent
\* priority, so that priority order alone would put it first
C9_Witness ==
    /\ phase = "resolved"
    /\ Acyclic(features)
    /\ Len(features) = 3
    /\ \E i, j \in DOMAIN features :
          /\ features[j].id \in Range(features[i].dependencies)
          /\ features[i].priority < features[j].priority
          /\ PosOf(OrderedIds(result), features[j].id)
               < PosOf(OrderedIds(result), features[i].id)

(***************************************************************************)
(* C10: for an acyclic snapshot the feature at each position of            *)
(* ordered_features has the smallest (priority, id) among the features not *)
(* yet emitted whose present dependencies have all been emitted; with no   *)
(* dependency edge the output is sorted by priority, then id.              *)
(***************************************************************************)
EmittedBefore(r, k) == {r.ordered_features[i].id : i \in 1..(k - 1)}

\* features that may be emitted at position k
Available(fs, r, k) ==
    {fs[i] : i \in {j \in DOMAIN fs :
                      /\ fs[j].id \notin EmittedBefore(r, k)
                      /\ PresentDeps(fs, fs[j].id) \subseteq EmittedBefore(r, k)}}

C10_LeastAvailableFirst ==
    (phase = "resolved" /\ Acyclic(features)) =>
        /\ \A k \in DOMAIN result.ordered_features :
              /\ result.ordered_features[k] \in Available(features, result, k)
              /\ \A g \in Available(features, result, k) :
                    KeyLeq(result.ordered_features[k], g)
        /\ (\A i \in DOMAIN features : PresentDeps(features, features[i].id) = {}) =>
              \A k \in 1..(Len(result.ordered_features) - 1) :
                  KeyLeq(result.ordered_features[k], result.ordered_features[k + 1])

\* an acyclic snapshot with an edge where, at some position, two features
\* of different priority were both available
C10_Witness ==
    /\ phase = "resolved"
    /\ Acyclic(features)
    /\ Len(features) = 3
    /\ \E i \in DOMAIN features : PresentDeps(features, features[i].id) # {}
    /\ \E k \in DOMAIN result.ordered_features :
          \E g \in Available(features, result, k) :
              g.priority > result.ordered_features[k].priority

(***************************************************************************)
(* C2: at any moment at most one process is between a successful return of *)
(* lockPriority and its matching unlockPriority, however long a holder     *)
(* stays in its critical section.                                          *)
(***************************************************************************)
C2_MutualExclusion ==
    Cardinality({p \in Procs : pc[p] \in InCriticalSection}) <= 1

(***************************************************************************)
(* C3: no two of the calls of feature_create, feature_create_bulk and      *)
(* feature_skip assign the same priority value: the priorities assigned to *)
(* created or skipped features are pairwise distinct.                      *)
(***************************************************************************)
C3_DistinctPriorities ==
    \A i, j \in DOMAIN assigned : i # j => assigned[i] # assigned[j]

(***************************************************************************)
(* C4: after a holder crashed without unlockPriority the lock does not     *)
(* stay unavailable: once its marker is older than LOCK_TIMEOUT, a process *)
(* waiting in lockPriority leads to the removal of the marker and to a     *)
(* lockPriority call that succeeds.                                        *)
(***************************************************************************)
\* the marker in place was created by a process that crashed
StuckMarker ==
    /\ marker # NoMarker
    /\ marker.owner \notin Procs \/ pc[marker.owner] = "crashed"

\* process q has just acquired the lock: the marker in place is its own
Acquired(q) ==
    /\ pc[q] = "select_max"
    /\ marker # NoMarker
    /\ marker.owner = q

C4_Witness ==
    \E q \in Procs :
        /\ Acquired(q)
        /\ waited[q] >= LOCK_TIMEOUT
        /\ crashes = 1
        /\ \E h \in Procs : pc[h] = "crashed"

(***************************************************************************)
(* C5: every call of lockPriority terminates: it returns with the lock or  *)
(* it throws, whatever the other processes do with the marker.             *)
(***************************************************************************)
C5_LockPriorityTerminates ==
    \A p \in Procs : (pc[p] \in InLockPriority) ~> (pc[p] \notin InLockPriority)

\* a call of lockPriority that threw after it had waited LOCK_TIMEOUT
C5_Witness ==
    \E p \in Procs :
        /\ pc[p] = "lock_failed"
        /\ waited[p] >= LOCK_TIMEOUT
        /\ marker # NoMarker

(***************************************************************************)
(* C6: when feature_create, feature_create_bulk or feature_skip has        *)
(* returned, with a success or with an error payload, also after a store   *)
(* statement threw, the calling process holds no priority lock.            *)
(***************************************************************************)
C6_NoLockBetweenCalls ==
    \A p \in Procs :
        pc[p] = "idle" =>
            /\ ~lockFd[p]
            /\ marker # NoMarker => marker.owner # p

\* a bulk call returned an error payload after one of its INSERTs was done
C6_Witness ==
    \E p \in Procs :
        /\ pc[p] = "idle"
        /\ ret[p] = "error: store"
        /\ wrote[p] > 0

(***************************************************************************)
(* C7: when lockPriority fails inside one of the three tools, the tool     *)
(* returns an error payload and performs no write: no feature is inserted  *)
(* and no priority is changed.                                             *)
(***************************************************************************)
C7_LockFailureWritesNothing ==
    [][\A p \in Procs :
          pc[p] = "lock_failed" =>
              /\ wrote[p] = 0
              /\ pc'[p] # "lock_failed" =>
                    /\ pc'[p] = "idle"
                    /\ ret'[p] = "error: lock"
                    /\ wrote'[p] = 0
                    /\ store' = store]_vars

\* a call returned the lock error while another call had filled the store
C7_Witness ==
    \E p \in Procs :
        /\ pc[p] = "idle"
        /\ ret[p] = "error: lock"
        /\ wrote[p] = 0
        /\ store # <<>>

(***************************************************************************)
(* C8: when the priority-assigning operations run one at a time, each      *)
(* assignment is 1 + the maximum priority in the store at that moment:     *)
(* from an empty store the assignments are 1, 2, 3, ... in this order, the *)
(* i-th feature of a bulk call gets max + 1 + i, and every new priority is *)
(* greater than all priorities present before.                             *)
(***************************************************************************)
C8_SequentialPriorities ==
    /\ \A k \in DOMAIN assigned : assigned[k] = k
    /\ MaxPriorityOf(store) = Len(assigned)

\* a bulk call of two features followed by a skip of the first: 1, 2, 3
C8_Witness ==
    /\ assigned = <<1, 2, 3>>
    /\ Len(store) = 2
    /\ store[1].priority = 3
    /\ store[2].priority = 2

(***************************************************************************)
(* C11: resolve_dependencies returns a non-empty circular_dependencies if  *)
(* and only if the dependency graph restricted to the ids present in the   *)
(* snapshot contains a cycle; for a 3-cycle some reported cycle contains   *)
(* its three ids, and for an acyclic snapshot the list is empty.           *)
(***************************************************************************)
\* the snapshot is three features a, b, c with a -> b -> c -> a and no other
\* dependency entry
ThreeCycle(fs) ==
    /\ Len(fs) = 3
    /\ \A i \in DOMAIN fs : Len(fs[i].dependencies) = 1
    /\ \A i \in DOMAIN fs : fs[i].dependencies[1] \in SnapshotIds(fs) \ {fs[i].id}
    /\ \A i, j \in DOMAIN fs : i # j => fs[i].dependencies # fs[j].dependencies

C11_CyclesReported ==
    phase = "resolved" =>
        /\ (result.circular_dependencies # <<>>) <=> ~Acyclic(features)
        /\ ThreeCycle(features) =>
              \E k \in DOMAIN result.circular_dependencies :
                  SnapshotIds(features) \subseteq Range(result.circular_dependencies[k])

\* the 3-cycle 1 -> 2 -> 3 -> 1 was resolved and a cycle was reported
C11_Witness ==
    /\ phase = "resolved"
    /\ ThreeCycle(features)
    /\ \A i \in DOMAIN features :
          features[i].dependencies = <<(features[i].id % 3) + 1>>
    /\ result.circular_dependencies # <<>>

(***************************************************************************)
(* C12: missing_dependencies[id] lists exactly the dependency ids of the   *)
(* feature that are absent from the snapshot, and has no key for a feature *)
(* without such ids; an absent dependency contributes no edge: the order   *)
(* and the cycles are those of the snapshot without the absent ids, and a  *)
(* feature whose only dependencies are absent is in no reported cycle.     *)
(***************************************************************************)
\* the entries of deps that are not ids of the snapshot, in their order
AbsentDeps(fs, deps) == FilterSeq(deps, Range(deps) \ SnapshotIds(fs))

\* the snapshot with the absent dependency ids taken out of every list
WithoutAbsent(fs) ==
    [i \in DOMAIN fs |->
        [fs[i] EXCEPT !.dependencies =
            FilterSeq(fs[i].dependencies, SnapshotIds(fs))]]

C12_MissingDependencies ==
    phase = "resolved" =>
        /\ DOMAIN result.missing_dependencies =
              {features[i].id : i \in {j \in DOMAIN features :
                  AbsentDeps(features, features[j].dependencies) # <<>>}}
        /\ \A i \in DOMAIN features :
              features[i].id \in DOMAIN result.missing_dependencies =>
                  result.missing_dependencies[features[i].id] =
                      AbsentDeps(features, features[i].dependencies)
        /\ OrderedIds(result) =
              OrderedIds(resolve_dependencies(WithoutAbsent(features)))
        /\ result.circular_dependencies =
              resolve_dependencies(WithoutAbsent(features)).circular_dependencies
        /\ \A i \in DOMAIN features :
              PresentDeps(features, features[i].id) = {} =>
                  \A k \in DOMAIN result.circular_dependencies :
                      features[i].id \notin Range(result.circular_dependencies[k])

\* a feature whose only dependency is absent was sorted before a feature of
\* lower urgency, next to a reported cycle
C12_Witness ==
    /\ phase = "resolved"
    /\ \E i \in DOMAIN features :
          /\ features[i].dependencies # <<>>
          /\ PresentDeps(features, features[i].id) = {}
          /\ features[i].id \in DOMAIN result.missing_dependencies
          /\ result.ordered_features[1].id = features[i].id
    /\ result.circular_dependencies # <<>>

(***************************************************************************)
(* C13: for a snapshot in which no dependency chain is longer than         *)
(* MAX_DEPENDENCY_DEPTH, would_create_circular_dependency(features,        *)
(* source, target) is true iff source = target, or both ids exist and      *)
(* source is reachable from target over the dependency lists; it is false  *)
(* when source # target and one of the ids is absent.                      *)
(***************************************************************************)
\* the number of dependency entries on the longest chain that starts at x and
\* repeats no feature; an entry that names an absent id ends the chain
RECURSIVE LongestFrom(_, _, _)
LongestFrom(fmap, x, seen) ==
    IF x \notin DOMAIN fmap \/ x \in seen THEN 0
    ELSE LET next == {d \in Range(fmap[x].dependencies) : d \notin seen \cup {x}}
             lens == {1 + LongestFrom(fmap, d, seen \cup {x}) : d \in next}
         IN  IF lens = {} THEN 0
             ELSE CHOOSE m \in lens : \A k \in lens : k <= m

\* the features with an entry that leads into w, n times over: from the
\* features of ChainStarts(fmap, w, n) one can follow n entries and arrive
\* in w (features may repeat on the way)
RECURSIVE ChainStarts(_, _, _)
ChainStarts(fmap, w, n) ==
    IF n = 0 THEN w
    ELSE IF n = 1
    THEN {x \in DOMAIN fmap : Range(fmap[x].dependencies) \cap w # {}}
    ELSE LET half == ChainStarts(fmap, w, n \div 2)
         IN  IF half = {} THEN {} ELSE ChainStarts(fmap, half, n - (n \div 2))

\* the features from which n entries can be followed, the last one to any id
EntriesFrom(fmap, n) ==
    ChainStarts(fmap, {x \in DOMAIN fmap : fmap[x].dependencies # <<>>}, n - 1)

\* a chain that repeats no feature passes through at most Len(fs) features,
\* so it has at most Len(fs) entries; where no feature can be repeated at
\* all, the chains are the runs of entries
NoLongChain(fs) ==
    LET fmap == feature_map(fs)
    IN  \/ Len(fs) <= MAX_DEPENDENCY_DEPTH
        \/ IF EntriesFrom(fmap, Len(fs) + 1) = {}
           THEN EntriesFrom(fmap, MAX_DEPENDENCY_DEPTH + 1) = {}
           ELSE \A x \in SnapshotIds(fs) :
                   LongestFrom(fmap, x, {}) <= MAX_DEPENDENCY_DEPTH

\* one more entry followed from the ids of s
ReachStep(fmap, s) ==
    s \cup UNION {Range(fmap[x].dependencies) : x \in s \cap DOMAIN fmap}

\* ids reachable from the ids of s over at most n dependency entries
RECURSIVE ReachSet(_, _, _)
ReachSet(fmap, s, n) ==
    IF n = 0 THEN s
    ELSE IF n = 1 THEN ReachStep(fmap, s)
    ELSE LET half == ReachSet(fmap, s, n \div 2)
         IN  IF half = s THEN s ELSE ReachSet(fmap, half, n - (n \div 2))

\* y is x or is reachable from x over dependency entries
Reaches(fs, x, y) == y \in ReachSet(feature_map(fs), {x}, Len(fs))

C13_WouldCreateCycle ==
    (phase = "checked" /\ NoLongChain(features)) =>
        (result.value <=>
            \/ result.source_id = result.target_id
            \/ /\ result.source_id \in SnapshotIds(features)
               /\ result.target_id \in SnapshotIds(features)
               /\ Reaches(features, result.target_id, result.source_id))

\* on a chain of exactly MAX_DEPENDENCY_DEPTH entries the answer for its two
\* ends is true
C13_Witness ==
    /\ phase = "checked"
    /\ NoLongChain(features)
    /\ 1 \in EntriesFrom(feature_map(features), MAX_DEPENDENCY_DEPTH)
    /\ result.target_id = 1
    /\ result.source_id = MAX_DEPENDENCY_DEPTH + 1
    /\ result.value

(***************************************************************************)
(* C14: would_create_circular_dependency does not raise on deep graphs:    *)
(* whenever the search from target gets deeper than MAX_DEPENDENCY_DEPTH   *)
(* before it finds source, the answer is true, also when the proposed edge *)
(* would close no cycle.                                                   *)
(***************************************************************************)
\* k first entries of the dependency lists, followed from x, meet neither the
\* source nor an absent id nor a feature twice
FirstEntry(fmap, source_id, s) ==
    IF ~s.run THEN s
    ELSE IF s.x = source_id \/ s.x \notin DOMAIN fmap \/ s.x \in s.seen
    THEN [s EXCEPT !.run = FALSE]
    ELSE IF fmap[s.x].dependencies = <<>> THEN [s EXCEPT !.run = FALSE]
    ELSE [x |-> fmap[s.x].dependencies[1], seen |-> s.seen \cup {s.x},
          run |-> TRUE]

RECURSIVE FirstEntries(_, _, _, _)
FirstEntries(fmap, source_id, s, k) ==
    IF k = 0 THEN s
    ELSE IF k = 1 THEN FirstEntry(fmap, source_id, s)
    ELSE LET half == FirstEntries(fmap, source_id, s, k \div 2)
         IN  IF ~half.run THEN half
             ELSE FirstEntries(fmap, source_id, half, k - (k \div 2))

FirstEntriesRun(fmap, x, source_id, k) ==
    FirstEntries(fmap, source_id, [x |-> x, seen |-> {}, run |-> TRUE], k).run

DeepBeforeSource(fs, source_id, target_id) ==
    /\ source_id # target_id
    /\ source_id \in SnapshotIds(fs)
    /\ target_id \in SnapshotIds(fs)
    /\ FirstEntriesRun(feature_map(fs), target_id, source_id,
                       MAX_DEPENDENCY_DEPTH + 1)

C14_DepthFailSafe ==
    phase = "checked" =>
        /\ result.too_deep => result.value
        /\ DeepBeforeSource(features, result.source_id, result.target_id) =>
              result.too_deep

\* the answer was true for a source that the target does not reach
C14_Witness ==
    /\ phase = "checked"
    /\ result.too_deep
    /\ result.value
    /\ result.source_id \in SnapshotIds(features)
    /\ ~Reaches(features, result.target_id, result.source_id)

(***************************************************************************)
(* C15: validate_dependencies returns [true, ''] iff the list has at most  *)
(* MAX_DEPENDENCIES entries, does not contain feature_id, has no duplicate *)
(* and only ids of all_feature_ids; otherwise [false, reason] with a       *)
(* non-empty reason; MAX_DEPENDENCIES + 1 distinct known ids are rejected  *)
(* with the limit reason, exactly MAX_DEPENDENCIES are not rejected for    *)
(* their number.                                                           *)
(***************************************************************************)
Acceptable(feature_id, dependency_ids, all_feature_ids) ==
    /\ Len(dependency_ids) <= MAX_DEPENDENCIES
    /\ \A i \in DOMAIN dependency_ids : dependency_ids[i] # feature_id
    /\ \A i, j \in DOMAIN dependency_ids :
          dependency_ids[i] = dependency_ids[j] => i = j
    /\ \A i \in DOMAIN dependency_ids : dependency_ids[i] \in all_feature_ids

C15_ValidateDependencies ==
    phase = "validated" =>
        /\ result.valid <=> Acceptable(result.feature_id, result.dependency_ids,
                                       result.all_feature_ids)
        /\ result.valid => result.error = ""
        /\ ~result.valid => result.error # ""
        /\ Len(result.dependency_ids) > MAX_DEPENDENCIES =>
              result.error = "Maximum 20 dependencies allowed"
        /\ Len(result.dependency_ids) = MAX_DEPENDENCIES =>
              result.error # "Maximum 20 dependencies allowed"

\* MAX_DEPENDENCIES + 1 distinct known ids were rejected for their number
C15_Witness ==
    /\ phase = "validated"
    /\ Len(result.dependency_ids) = MAX_DEPENDENCIES + 1
    /\ Range(result.dependency_ids) \subseteq result.all_feature_ids
    /\ result.feature_id \notin Range(result.dependency_ids)
    /\ ~result.valid
    /\ result.error = "Maximum 20 dependencies allowed"

(***************************************************************************)
(* C18: compute_scheduling_scores terminates and returns a result on every *)
(* finite snapshot, also on snapshots that contain dependency cycles or    *)
(* missing dependency ids (get_ready_features calls it on every snapshot,  *)
(* resolve_dependencies does not).                                         *)
(***************************************************************************)
C18_ScoresTerminate ==
    phase = "scored" => result.terminates

(***************************************************************************)
(* C19: within one snapshot, of two features with the same depth and the   *)
(* same priority but different downstream counts, the one with the larger  *)
(* downstream count has the strictly greater score.                        *)
(***************************************************************************)
SameDepthAndPriority(a, b) ==
    /\ result.depths[a.id] = result.depths[b.id]
    /\ a.priority = b.priority

\* scores of one snapshot have the same positive denominator
ScoreGreater(s, t) == s.num * t.den > t.num * s.den

C19_DownstreamMonotone ==
    (phase = "scored" /\ result.terminates) =>
        \A i, j \in DOMAIN features :
            (/\ SameDepthAndPriority(features[i], features[j])
             /\ result.downstream[features[i].id]
                    > result.downstream[features[j].id])
            => ScoreGreater(result.scores[features[i].id],
                            result.scores[features[j].id])

C19_Witness ==
    /\ phase = "scored"
    /\ result.terminates
    /\ \E i, j \in DOMAIN features :
          /\ SameDepthAndPriority(features[i], features[j])
          /\ result.downstream[features[i].id]
                > result.downstream[features[j].id]
          /\ ScoreGreater(result.scores[features[i].id],
                          result.scores[features[j].id])

(***************************************************************************)
(* C20: for every acyclic snapshot with integer priorities,                *)
(* compute_scheduling_scores returns a score for exactly each feature id   *)
(* of the snapshot (an empty snapshot yields an empty map) and every score *)
(* s satisfies 0 <= s <= 1110.                                             *)
(***************************************************************************)
C20_ScoreRange ==
    (phase = "scored" /\ Acyclic(features)) =>
        /\ result.terminates
        /\ DOMAIN result.scores = SnapshotIds(features)
        /\ \A id \in SnapshotIds(features) :
              /\ 0 <= result.scores[id].num
              /\ result.scores[id].num <= 1110 * result.scores[id].den

(***************************************************************************)
(* C16: get_ready_features, with a limit at least the snapshot size,       *)
(* returns exactly the features that are not passing, not in progress and  *)
(* whose dependencies present in the snapshot are all passing; a           *)
(* dependency-free, non-passing, non-in-progress feature is always         *)
(* returned.                                                               *)
(***************************************************************************)
ReturnedIds(r) == {r.value[i].id : i \in DOMAIN r.value}

PresentDepsPassing(f, fs) ==
    \A d \in Range(f.dependencies) :
        d \in SnapshotIds(fs) => d \in PassingIds(fs)

DependencyFreeReturned ==
    \A i \in DOMAIN features :
        (/\ features[i].dependencies = <<>>
         /\ ~features[i].passes
         /\ ~features[i].in_progress)
        => (result.terminates /\ features[i].id \in ReturnedIds(result))

C16_ReadyFeatures ==
    phase = "ready" =>
        /\ result.terminates
        /\ ReturnedIds(result) =
              {features[i].id : i \in
                  {j \in DOMAIN features :
                      /\ ~features[j].passes
                      /\ ~features[j].in_progress
                      /\ PresentDepsPassing(features[j], features)}}
        /\ DependencyFreeReturned

(***************************************************************************)
(* C17 as stated: get_blocked_features returns exactly the non-passing     *)
(* features with at least one dependency id that exists in the snapshot    *)
(* and is not passing, blocked_by holds exactly those ids, and every id in *)
(* blocked_by is the id of a present feature whose passes flag is false.   *)
(***************************************************************************)
BlockedIds(r) == {r[i].feature.id : i \in DOMAIN r}

PresentNotPassing(f, fs) ==
    {d \in Range(f.dependencies) : d \in SnapshotIds(fs) \ PassingIds(fs)}

NotPassing(f, fs) == {d \in Range(f.dependencies) : d \notin PassingIds(fs)}

DirectlyDependsOn(fs, x, y) ==
    \E i \in DOMAIN fs : fs[i].id = x /\ y \in Range(fs[i].dependencies)

GenuineCycle(fs, c) ==
    /\ c # <<>>
    /\ \A i \in 1..(Len(c) - 1) : DirectlyDependsOn(fs, c[i], c[i + 1])
    /\ DirectlyDependsOn(fs, c[Len(c)], c[1])

C24_GenuineCycles ==
    phase = "resolved" =>
        \A k \in DOMAIN result.circular_dependencies :
            /\ GenuineCycle(features, result.circular_dependencies[k])
            /\ \A x \in Range(result.circular_dependencies[k]) :
                  DependsOn(features, x, x)

C26_ResidueOnCycles ==
    phase = "resolved" =>
        \A i \in DOMAIN Unsorted(features) :
            DependsOn(features, Unsorted(features)[i].id, Unsorted(features)[i].id)

(***************************************************************************)
(* C27: _detect_cycles never recurses deeper than MAX_DEPENDENCY_DEPTH:    *)
(* counting the first call of dfs as depth 0, no call of dfs has a depth   *)
(* greater than MAX_DEPENDENCY_DEPTH.                                      *)
(***************************************************************************)
C27_DetectDepthCapped ==
    phase = "detected" =>
        /\ result.returned
        /\ result.deepest - 1 <= MAX_DEPENDENCY_DEPTH

(***************************************************************************)
(* C28: for an acyclic snapshot, the downstream value that                 *)
(* compute_scheduling_scores uses for a feature equals the number of       *)
(* distinct features that transitively depend on it, each dependent        *)
(* counted once also when it is reachable through several paths.           *)
(***************************************************************************)
Dependents(fs, x) == {y \in SnapshotIds(fs) : DependsOn(fs, y, x)}

C28_DownstreamDistinct ==
    (phase = "scored" /\ Acyclic(features)) =>
        /\ result.terminates
        /\ \A x \in SnapshotIds(features) :
              result.downstream[x] = Cardinality(Dependents(features, x))

(***************************************************************************)
(* C29: for an acyclic snapshot, the depth that compute_scheduling_scores  *)
(* uses for a feature is 0 if the feature has no dependency present in the *)
(* snapshot and otherwise 1 + the maximum depth of its present             *)
(* dependencies; compute_depth over build_adjacency_list returns the same  *)
(* value for every feature.                                                *)
(***************************************************************************)
DepthRule(fs, depths) ==
    \A x \in SnapshotIds(fs) :
        depths[x] = IF PresentDeps(fs, x) = {} THEN 0
                    ELSE 1 + MaxValue([d \in PresentDeps(fs, x) |-> depths[d]])

C29_Depths ==
    Acyclic(features) =>
        /\ phase = "scored" =>
              result.terminates /\ DepthRule(features, result.depths)
        /\ phase = "depth" =>
              /\ ~result.overflow
              /\ result.value =
                    compute_scheduling_scores(features).depths[result.feature_id]

(***************************************************************************)
(* C30: get_ready_features(features, limit) returns the first              *)
(* min(limit, n) of the n ready features ordered by scheduling score       *)
(* descending, then priority ascending, then id ascending; with no         *)
(* dependency edges and priorities at most 10 this is priority ascending.  *)
(* The call is the one with limit = number of features.                    *)
(***************************************************************************)
\* a is not after b in the order of the claim
ReadyOrder(a, b, scores) ==
    \/ ScoreGreater(scores[a.id], scores[b.id])
    \/ /\ scores[a.id].num * scores[b.id].den = scores[b.id].num * scores[a.id].den
       /\ \/ a.priority < b.priority
          \/ a.priority = b.priority /\ a.id <= b.id

\* value is the first k elements of the ready features in that order
FirstReady(value, fs, k, scores) ==
    LET ready == {fs[i] : i \in {j \in DOMAIN fs : IsReady(fs[j], fs)}}
    IN  /\ Len(value) = Min(k, Cardinality(ready))
        /\ Range(value) \subseteq ready
        /\ \A i, j \in DOMAIN value : i < j => value[i] # value[j]
        /\ \A i \in DOMAIN value : \A f \in ready \ {value[m] : m \in 1..i} :
              ReadyOrder(value[i], f, scores)

C30_ReadyOrder ==
    phase = "ready" =>
        /\ result.terminates
        /\ FirstReady(result.value, features, Len(features),
                      compute_scheduling_scores(features).scores)
        /\ (\A i \in DOMAIN features :
               features[i].dependencies = <<>> /\ features[i].priority <= 10)
           => \A i, j \in DOMAIN result.value :
                 i < j => result.value[i].priority <= result.value[j].priority

(***************************************************************************)
(* Notions on the stored rows.                                             *)
(***************************************************************************)
StoredDeps(rows, x) == Range(rows[x].dependencies) \cap DOMAIN rows

\* the ids reachable from the set S over stored dependencies
RECURSIVE StoreClosure(_, _)
StoreClosure(rows, S) ==
    LET T == S \cup UNION {StoredDeps(rows, x) : x \in S}
    IN  IF T = S THEN S ELSE StoreClosure(rows, T)

StoreHasCycle(rows) ==
    \E x \in DOMAIN rows : x \in StoreClosure(rows, StoredDeps(rows, x))

(***************************************************************************)
(* C21: starting from an empty store, after any sequence of                *)
(* feature_create, feature_create_bulk, feature_add_dependency,            *)
(* feature_set_dependencies and feature_remove_dependency calls, every     *)
(* stored dependency list contains no self-reference, no duplicate id, at  *)
(* most MAX_DEPENDENCIES ids, and only ids of features that exist in the   *)
(* store.                                                                  *)
(***************************************************************************)
C21_StoredListsValid ==
    \A x \in DOMAIN store :
        /\ x \notin Range(store[x].dependencies)
        /\ ~HasDuplicates(store[x].dependencies)
        /\ Len(store[x].dependencies) <= MAX_DEPENDENCIES
        /\ Range(store[x].dependencies) \subseteq DOMAIN store

\* a feature holds MAX_DEPENDENCIES dependencies and a call on the store
\* has been turned down for its number of dependencies
C21_Witness ==
    /\ \E x \in DOMAIN store : Len(store[x].dependencies) = MAX_DEPENDENCIES
    /\ \E p \in Procs : ret[p] = "error: max dependencies"

(***************************************************************************)
(* C22: starting from an empty store, after any sequence of                *)
(* feature_create, feature_create_bulk, feature_add_dependency,            *)
(* feature_set_dependencies and feature_remove_dependency calls executed   *)
(* one at a time, the stored dependency graph contains no cycle: an add or *)
(* set that would close a cycle returns a 'circular dependency' error and  *)
(* leaves the dependencies unchanged.                                      *)
(***************************************************************************)
\* with the dependency list dependency_ids, feature_id would depend on itself
\* or on a feature that depends on it
ClosesCycle(rows, feature_id, dependency_ids) ==
    /\ feature_id \in DOMAIN rows
    /\ \E k \in DOMAIN dependency_ids :
          /\ dependency_ids[k] \in DOMAIN rows
          /\ \/ dependency_ids[k] = feature_id
             \/ feature_id \in StoreClosure(rows, StoredDeps(rows, dependency_ids[k]))

\* what a call of a dependency tool returns without writing
ErrorPayloads ==
    {"error: self", "error: not found", "error: dependency not found",
     "error: max dependencies", "error: exists", "error: duplicates",
     "error: circular"}

\* process p starts, in this step, an add or a set that would close a cycle
ClosingCall(p) ==
    /\ pc[p] = "idle"
    /\ calls' = calls + 1
    /\ ret'[p] \in ErrorPayloads \cup {"running"}
    /\ \/ \E feature_id \in DepIds(store) : \E dependency_id \in DepIds(store) :
            /\ ClosesCycle(store, feature_id, <<dependency_id>>)
            /\ feature_add_dependency(p, feature_id, dependency_id)
       \/ \E feature_id \in DepIds(store) : \E dependency_ids \in DepLists :
            /\ ClosesCycle(store, feature_id, dependency_ids)
            /\ feature_set_dependencies(p, feature_id, dependency_ids)

\* the same, for a call that no check before the cycle check turns down
ClosingCallWellFormed(p) ==
    /\ pc[p] = "idle"
    /\ calls' = calls + 1
    /\ ret'[p] \in ErrorPayloads \cup {"running"}
    /\ \/ \E feature_id \in DepIds(store) : \E dependency_id \in DepIds(store) :
            /\ feature_id # dependency_id
            /\ ClosesCycle(store, feature_id, <<dependency_id>>)
            /\ Len(store[feature_id].dependencies) < MAX_DEPENDENCIES
            /\ feature_add_dependency(p, feature_id, dependency_id)
       \/ \E feature_id \in DepIds(store) : \E dependency_ids \in DepLists :
            /\ feature_id \notin Range(dependency_ids)
            /\ Len(dependency_ids) <= MAX_DEPENDENCIES
            /\ ~HasDuplicates(dependency_ids)
            /\ Range(dependency_ids) \subseteq DOMAIN store
            /\ ClosesCycle(store, feature_id, dependency_ids)
            /\ feature_set_dependencies(p, feature_id, dependency_ids)

C22_NoCycleCircularError ==
    [][/\ store' # store => ~StoreHasCycle(store')
       /\ \A p \in Procs :
             \/ ret'[p] = "error: circular" /\ store' = store
             \/ ~ClosingCall(p)]_vars

\* amended: the call returns an error and leaves the dependencies
\* unchanged; the error is the 'circular dependency' one unless an earlier
\* check of the tool (self-reference, number of dependencies, duplicate id,
\* id of no feature) turns the call down first
C22_NoCycleCallRejected ==
    [][/\ store' # store => ~StoreHasCycle(store')
       /\ \A p \in Procs :
             /\ \/ ret'[p] \in ErrorPayloads /\ pc'[p] = "idle" /\ store' = store
                \/ ~ClosingCall(p)
             /\ ret'[p] = "error: circular" \/ ~ClosingCallWellFormed(p)]_vars

\* a call was turned down with the 'circular dependency' error while the
\* store holds a dependency
C22_Witness ==
    /\ \E p \in Procs : ret[p] = "error: circular"
    /\ \E x \in DOMAIN store : store[x].dependencies # <<>>

(***************************************************************************)
(* C23: for any interleaving of feature_mark_in_progress and               *)
(* feature_claim_and_get calls issued by different processes on the same   *)
(* feature that is neither passing nor in progress, at most one call       *)
(* reports a fresh claim (a success result from feature_mark_in_progress,  *)
(* or already_claimed = false from feature_claim_and_get); every other     *)
(* call sees the feature as already claimed.                               *)
(***************************************************************************)
\* the processes whose last call reported a fresh claim of feature x
FreshClaims(x) ==
    {p \in Procs :
        /\ pc[p] = "idle"
        /\ op[p].kind \in {"mark", "claim"}
        /\ op[p].feature_id = x
        /\ ret[p] \in {"success", "already_claimed: false"}}

C23_OneFreshClaim ==
    \A x \in DOMAIN store : Cardinality(FreshClaims(x)) <= 1

(***************************************************************************)
(* C31: a non-passing feature that lists a dependency id absent from the   *)
(* snapshot is treated as unmet: get_ready_features does not return it,    *)
(* and build_graph_data gives it status 'blocked' (status is 'done' if     *)
(* passes, else 'blocked' if any dependency id is not in the passing set,  *)
(* else 'in_progress' if in_progress, else 'pending').                     *)
(***************************************************************************)
HasAbsentDependency(f, fs) == Range(f.dependencies) \ SnapshotIds(fs) # {}

StatusRule(f, fs) ==
    IF f.passes THEN "done"
    ELSE IF Range(f.dependencies) \ PassingIds(fs) # {} THEN "blocked"
    ELSE IF f.in_progress THEN "in_progress"
    ELSE "pending"

C31_AbsentIsUnmet ==
    /\ (phase = "ready" /\ result.terminates) =>
          \A i \in DOMAIN features :
              (~features[i].passes /\ HasAbsentDependency(features[i], features))
                  => features[i].id \notin ReturnedIds(result)
    /\ phase = "graph" =>
          /\ Len(result.nodes) = Len(features)
          /\ \A i \in DOMAIN features :
                /\ result.nodes[i].id = features[i].id
                /\ result.nodes[i].status = StatusRule(features[i], features)
                /\ (~features[i].passes /\ HasAbsentDependency(features[i], features))
                      => result.nodes[i].status = "blocked"

\* the graph of a snapshot with a free feature whose only unmet dependency
\* is an absent id, next to a passing dependency
C31_Witness ==
    /\ phase = "graph"
    /\ \E i \in DOMAIN features :
          /\ ~features[i].passes
          /\ ~features[i].in_progress
          /\ HasAbsentDependency(features[i], features)
          /\ Range(features[i].dependencies) \cap SnapshotIds(features)
                \subseteq PassingIds(features)
          /\ Range(features[i].dependencies) \cap PassingIds(features) # {}
          /\ result.nodes[i].status = "blocked"

(***************************************************************************)
(* C32: feature_skip on an existing non-passing feature sets its priority  *)
(* to 1 + the current maximum priority, so that afterwards its priority is *)
(* strictly greater than that of every other feature, clears its           *)
(* in_progress flag, and changes nothing else; a feature created           *)
(* afterwards gets a priority strictly greater than the skipped feature's  *)
(* new priority; on a passing or unknown feature it returns an error and   *)
(* leaves the store unchanged.                                             *)
(***************************************************************************)
\* process p is inside a feature_skip call before or after this step
InSkip(p) == op[p].kind = "skip" \/ op'[p].kind = "skip"

\* this step is the UPDATE of the feature_skip call of process p
SkipWrites(p) == op[p].kind = "skip" /\ store' # store

SkipEffect(p) ==
    LET x == op[p].feature_id
    IN  /\ DOMAIN store' = DOMAIN store
        /\ store'[x].priority = 1 + MaxPriorityOf(store)
        /\ \A y \in DOMAIN store \ {x} :
              /\ store'[x].priority > store'[y].priority
              /\ store'[y] = store[y]
        /\ ~store'[x].in_progress
        /\ store'[x] = [store[x] EXCEPT !.priority = store'[x].priority,
                                        !.in_progress = FALSE]

C32_SkipMovesToEnd ==
    [][/\ \A p \in Procs :
             /\ InSkip(p) => (store' = store \/ (SkipWrites(p) /\ SkipEffect(p)))
             /\ (op[p].kind = "skip" /\ pc[p] = "unlock" /\ pc'[p] = "idle"
                    /\ ret[p] = "success")
                   => /\ store[op[p].feature_id].priority = 1 + max_priority[p]
                      /\ ~store[op[p].feature_id].in_progress
             /\ \A feature_id \in 1..(Len(store) + 1) :
                   (/\ feature_skip(p, feature_id)
                    /\ \/ feature_id \notin DOMAIN store
                       \/ store[feature_id].passes)
                   => (/\ ret'[p] \in {"error: not found", "error: passing"}
                       /\ pc'[p] = "idle"
                       /\ store' = store)
       /\ Len(store') = Len(store) + 1 =>
             \A y \in DOMAIN store : store'[Len(store')].priority > store[y].priority]_vars

\* feature 1 was in progress or not; it was skipped to the priority logged
\* first and has lost its flag, and the feature created after it has the
\* greater priority logged second
C32_Witness ==
    /\ Len(store) = 2
    /\ Len(assigned) = 2
    /\ store[1].priority = assigned[1]
    /\ store[2].priority = assigned[2]
    /\ assigned[2] > assigned[1]
    /\ ~store[1].in_progress
    /\ \A p \in Procs : pc[p] = "idle"

(***************************************************************************)
(* C33: when feature_create_bulk rejects its input during validation (a    *)
(* feature missing a required field, more than MAX_DEPENDENCIES indices,   *)
(* duplicate indices, a negative or non-integer index, or an index >= the  *)
(* feature's own position), it returns an error payload and inserts        *)
(* nothing: the store is unchanged and the priority lock is never taken.   *)
(***************************************************************************)
\* the feature at 0-based position i has one of the listed faults
FaultyFeature(fd, i) ==
    \/ ~fd.fields
    \/ Len(fd.depends_on_indices) > MAX_DEPENDENCIES
    \/ HasDuplicates(fd.depends_on_indices)
    \/ \E k \in DOMAIN fd.depends_on_indices :
          \/ fd.depends_on_indices[k].n < 0
          \/ fd.depends_on_indices[k].half
          \/ fd.depends_on_indices[k].n >= i

FaultyBatch(input) == \E i \in DOMAIN input : FaultyFeature(input[i], i - 1)

C33_RejectedBulkWritesNothing ==
    [][\A p \in Procs :
          \/ /\ ret'[p] = "error: input"
             /\ pc'[p] = "idle"
             /\ store' = store
             /\ marker' = marker
             /\ lockFd' = lockFd
          \/ ~(pc[p] = "idle" /\ calls' = calls + 1)
          \/ \A input \in Batches :
                ~(FaultyBatch(input) /\ feature_create_bulk(p, input))]_vars

\* a call was rejected while the store holds features and another process
\* holds the priority lock
C33_Witness ==
    /\ \E p \in Procs : ret[p] = "error: input" /\ pc[p] = "idle"
    /\ store # <<>>
    /\ marker # NoMarker

(***************************************************************************)
(* C34: feature_claim_and_get is idempotent: calling it again on a feature *)
(* that is already in progress leaves the store unchanged and returns the  *)
(* same feature details with already_claimed = true, while the first call  *)
(* on an unclaimed non-passing feature sets in_progress and returns        *)
(* already_claimed = false.                                                *)
(***************************************************************************)
C34_ClaimIdempotent ==
    [][\A p \in Procs : \A x \in DOMAIN store :
          /\ (feature_claim_and_get(p, x) /\ ~store[x].passes
                                          /\ store[x].in_progress)
                => /\ store' = store
                   /\ pc'[p] = "idle"
                   /\ ret'[p] = "already_claimed: true"
                   /\ result'.already_claimed
                   /\ result'.feature = all_features(store)[x]
                   /\ (result # NoResult /\ result.feature.id = x)
                         => result'.feature = result.feature
          /\ (feature_claim_and_get(p, x) /\ ~store[x].passes
                                          /\ ~store[x].in_progress)
                => /\ store' = store
                   /\ pc'[p] = "update_in_progress"
          /\ (update_in_progress(p) /\ op[p] = [kind |-> "claim",
                                                feature_id |-> x])
                => /\ store' = [store EXCEPT ![x].in_progress = TRUE]
                   /\ ret'[p] = "already_claimed: false"
                   /\ ~result'.already_claimed
                   /\ result'.feature = all_features(store')[x]
                   /\ result'.feature.in_progress]_vars

\* a second call on feature 1 has returned the details that the first call
\* returned, with already_claimed = true
C34_Witness ==
    /\ result # NoResult
    /\ result.already_claimed
    /\ result.feature.id = 1
    /\ \A p \in Procs :
          /\ pc[p] = "idle"
          /\ op[p] = [kind |-> "claim", feature_id |-> 1]
    /\ \E p \in Procs : ret[p] = "already_claimed: false"
    /\ \E p \in Procs : ret[p] = "already_claimed: true"

(***************************************************************************)
(* C35: retry_on_busy invokes the operation at most RETRY_DELAYS.length    *)
(* (5) times, invokes it again only after a failure whose message contains *)
(* SQLITE_BUSY, resolves with the first successful result without further  *)
(* invocations, rethrows a non-busy error immediately without retrying,    *)
(* and rejects with the last busy error once all attempts are used; it     *)
(* always settles.                                                         *)
(***************************************************************************)
\* what invocation i of the operation returned or threw
OutcomeOf(i) == [kind |-> features[i], at |-> i]

Invoked == 1..result.invocations

RetryRule ==
    /\ result.invocations <= Len(RETRY_DELAYS)
    /\ \A i \in Invoked : i > 1 => features[i - 1] = "busy"
    /\ result.settled = "resolved" =>
          /\ result.invocations >= 1
          /\ result.with = OutcomeOf(result.invocations)
          /\ result.with.kind = "ok"
          /\ \A i \in Invoked : i < result.invocations => features[i] # "ok"
    /\ \A i \in Invoked : features[i] \in {"other", "value"} =>
          /\ i = result.invocations
          /\ result.settled = "rejected"
          /\ result.with = OutcomeOf(i)
    /\ (result.settled = "rejected"
          /\ features[result.invocations] = "busy") =>
          /\ result.invocations = Len(RETRY_DELAYS)
          /\ result.with = OutcomeOf(Len(RETRY_DELAYS))

\* once settled, nothing more is invoked and the promise keeps its state
SettledIsFinal ==
    result.settled # "pending" => result' = result

NeverPassingInProgress ==
    \A x \in DOMAIN store : ~(store[x].passes /\ store[x].in_progress)

FlagRule ==
    \A p \in Procs :
       /\ (update_flags(p) /\ op[p].kind \in {"passing", "failing"})
             => /\ ~store'[op[p].feature_id].in_progress
                /\ store'[op[p].feature_id].passes = (op[p].kind = "passing")
       /\ \A x \in DOMAIN store :
             ((feature_mark_in_progress(p, x) \/ feature_claim_and_get(p, x))
                /\ store[x].passes)
             => /\ store' = store
                /\ pc'[p] = "idle"
                /\ ret'[p] = "error: passing"
       /\ (update_in_progress(p) /\ op[p].kind = "mark")
             => /\ ~store[op[p].feature_id].passes
                /\ ~store[op[p].feature_id].in_progress
                /\ ret'[p] = "success"

C36_NeverPassingInProgress ==
    /\ []NeverPassingInProgress
    /\ [][FlagRule]_vars

\* a feature that was in progress has been marked passing
C36_Witness ==
    \E p \in Procs : \E x \in DOMAIN store :
       /\ op[p] = [kind |-> "passing", feature_id |-> x]
       /\ pc[p] = "idle"
       /\ ret[p] = "success"
       /\ store[x].passes
       /\ \E q \in Procs \ {p} :
             /\ op[q] = [kind |-> "mark", feature_id |-> x]
             /\ ret[q] = "success"

(***************************************************************************)
(* C37: for any interleaving of feature_add_dependency and                 *)
(* feature_set_dependencies calls issued by different processes against    *)
(* the same initially acyclic store, the stored dependency graph remains   *)
(* acyclic (two processes cannot each add one half of a two-feature        *)
(* cycle).                                                                 *)
(***************************************************************************)
\* the lists a tool can have stored for feature i of n: ascending, without
\* i, of at most two ids
StoredLists(n, i) ==
    {l \in SeqsUpTo((1..n) \ {i}, 2) : \A k \in 1..(Len(l) - 1) : l[k] < l[k + 1]}

\* a store of two to MaxFeatures features whose dependency graph is acyclic
InitRace ==
    /\ features = <<>>
    /\ result = NoResult
    /\ phase = "tools"
    /\ \E n \in 2..MaxFeatures :
       \E deps \in [1..n -> SeqsUpTo(1..n, 2)] :
          /\ \A i \in 1..n : deps[i] \in StoredLists(n, i)
          /\ store = [i \in 1..n |->
                         [priority |-> i, passes |-> FALSE,
                          in_progress |-> FALSE, dependencies |-> deps[i]]]
          /\ ~StoreHasCycle(store)
    /\ marker = NoMarker
    /\ pc = [p \in Procs |-> "idle"]
    /\ op = [p \in Procs |-> NoOp]
    /\ waited = [p \in Procs |-> 0]
    /\ sleep_left = [p \in Procs |-> 0]
    /\ lockFd = [p \in Procs |-> FALSE]
    /\ max_priority = [p \in Procs |-> 0]
    /\ created_features = [p \in Procs |-> <<>>]
    /\ ret = [p \in Procs |-> "none"]
    /\ wrote = [p \in Procs |-> 0]
    /\ assigned = <<>>
    /\ calls = 0
    /\ crashes = 0

\* the handlers open no transaction and take no lock: a call of one process
\* may start between the reads and the UPDATE of a call of another
NextRace ==
    \/ \E p \in Procs : \E feature_id, dependency_id \in DOMAIN store :
           feature_add_dependency(p, feature_id, dependency_id)
    \/ \E p \in Procs : \E feature_id \in DOMAIN store :
       \E dependency_ids \in SeqsUpTo(DOMAIN store, 2) :
           feature_set_dependencies(p, feature_id, dependency_ids)
    \/ \E p \in Procs : update_dependencies(p)

SpecRace == InitRace /\ [][NextRace]_vars

C37_StoreStaysAcyclic == ~StoreHasCycle(store)

(***************************************************************************)
(* C38: a call to unlockPriority by one process never removes a lock       *)
(* marker that was created by another process which is still inside its    *)
(* critical section; a process only ever deletes the marker it created     *)
(* itself.                                                                 *)
(***************************************************************************)
C38_UnlockOwnMarker ==
    [][\A p \in Procs :
          (unlockPriority(p) /\ marker # NoMarker /\ marker.owner # p)
             => pc[marker.owner] \notin InCriticalSection]_vars

(***************************************************************************)
(* C39: for any snapshot, no feature is returned both by                   *)
(* get_ready_features (unlimited) and by get_blocked_features, and every   *)
(* non-passing feature is in exactly one of three classes: ready, blocked, *)
(* or in progress with every dependency passing.                           *)
(***************************************************************************)
\* the classes of feature f, given the two returned lists
ClassesOf(f, fs, ready, blocked) ==
    (IF f.id \in ReturnedIds(ready) THEN {"ready"} ELSE {})
    \cup (IF f.id \in BlockedIds(blocked) THEN {"blocked"} ELSE {})
    \cup (IF f.in_progress /\ Range(f.dependencies) \subseteq PassingIds(fs)
          THEN {"in progress"} ELSE {})

C39_OneClass ==
    phase = "ready" =>
        LET blocked == get_blocked_features(features)
        IN  /\ result.terminates
            /\ ReturnedIds(result) \cap BlockedIds(blocked) = {}
            /\ \A i \in DOMAIN features :
                  ~features[i].passes =>
                     Cardinality(ClassesOf(features[i], features,
                                           result, blocked)) = 1

(***************************************************************************)
(* C40: resolve_dependencies is deterministic with respect to input order  *)
(* on acyclic snapshots: for an acyclic snapshot with unique ids, the id   *)
(* sequence of ordered_features is the same for every permutation of the   *)
(* input feature list and of each dependency list.                         *)
(***************************************************************************)
\* the rearrangements of the list l
Rearranged(l) ==
    {[k \in DOMAIN l |-> l[pi[k]]] : pi \in
        {f \in [DOMAIN l -> DOMAIN l] : \A a, b \in DOMAIN l : f[a] = f[b] => a = b}}

\* fs with the entries of each dependency list rearranged
DependenciesRearranged(fs) ==
    LET lists == UNION {Rearranged(fs[i].dependencies) : i \in DOMAIN fs}
    IN  {[i \in DOMAIN fs |-> [fs[i] EXCEPT !.dependencies = c[i]]] :
            c \in {d \in [DOMAIN fs -> lists] :
                      \A i \in DOMAIN fs :
                          d[i] \in Rearranged(fs[i].dependencies)}}

\* the snapshots that fs becomes when its features and the entries of each
\* dependency list are rearranged
Reorderings(fs) == UNION {Rearranged(gs) : gs \in DependenciesRearranged(fs)}

UniqueIds(fs) == \A i, j \in DOMAIN fs : fs[i].id = fs[j].id => i = j

C40_OrderIndependent ==
    (phase = "resolved" /\ Acyclic(features) /\ UniqueIds(features)) =>
        \A gs \in Reorderings(features) :
            OrderedIds(resolve_dependencies(gs)) = OrderedIds(result)

\* two features of equal priority are available together, given in
\* descending id order, and a dependency list is given in descending order
C40_Witness ==
    /\ phase = "resolved"
    /\ Acyclic(features)
    /\ Len(features) = 3
    /\ \E i, j \in DOMAIN features :
          /\ i < j
          /\ features[i].id > features[j].id
          /\ features[i].priority = features[j].priority
          /\ features[i].dependencies = <<>>
          /\ features[j].dependencies = <<>>
    /\ \E i \in DOMAIN features :
          /\ Len(features[i].dependencies) = 2
          /\ features[i].dependencies[1] > features[i].dependencies[2]

====
